---- MODULE Spec2Model ----
(***************************************************************************)
(* A model of the OCA data set validator                                   *)
(* (src/src/oca_ds_validator/oca_ds_validator.py): the format matchers,    *)
(* the schema bundle getters, the four validation passes, validate, and    *)
(* the error report OCADataSetErr with its derived views.                  *)
(*                                                                         *)
(* Python strings are TLA+ strings; a cell of the data frame is a record   *)
(* [t, s, n] whose tag t says which Python value it is.  An exception      *)
(* leaving a function is the value Raised(kind).                           *)
(***************************************************************************)
EXTENDS Integers, Sequences, FiniteSets, TLC

\* ------------------------------------------------------------------------
\* Bounds of the model.
MaxRows == 2
MaxAttrs == 2
MaxChanges == 3
MaxCalls == 3
MaxTokens == 2
MaxBundles == 2

\* ------------------------------------------------------------------------
\* Program constants (lines 23-59).
OCA_VERSION == "1.0"
ERR_THRESHOLD == 5
DEFAULT_ENCODING == "utf-8"
ATTR_UNMATCH_MSG == "Unmatched attribute (attribute not found in the OCA Bundle)."
ATTR_MISSING_MSG == "Missing attribute (attribute not found in the data set)."
MISSING_MSG == "Missing mandatory attribute."
NOT_A_LIST_MSG == "Valid array required."
FORMAT_ERR_MSG == "Format mismatch."
EC_FORMAT_ERR_MSG == " Entry code format mismatch (manually fix the attribute format)."
EC_ERR_MSG == "One of the entry codes required."
CHE_ERR_MSG == "Character encoding mismatch."

\* Python's None.
None == "<None>"

\* The outcome of a call: the value it returns (exc = ""), or the exception
\* that leaves it.
Ret(v) == [exc |-> "", val |-> v]
Exc(kind) == [exc |-> kind, val |-> FALSE]

\* ------------------------------------------------------------------------
\* Python str operations.
Drop(s, k) == SubSeq(s, k + 1, Len(s))
Take(s, k) == SubSeq(s, 1, k)
At(s, i) == SubSeq(s, i, i)
StartsWith(s, pre) == Len(pre) <= Len(s) /\ Take(s, Len(pre)) = pre

\* sub in s
Contains(sub, s) ==
    \E i \in 1..(Len(s) - Len(sub) + 1) : SubSeq(s, i, i + Len(sub) - 1) = sub

\* s.find(sub) + 1, or 0 when sub is not in s
Find(sub, s) ==
    IF Contains(sub, s)
    THEN CHOOSE i \in 1..(Len(s) - Len(sub) + 1) :
            /\ SubSeq(s, i, i + Len(sub) - 1) = sub
            /\ \A j \in 1..(i - 1) : SubSeq(s, j, j + Len(sub) - 1) # sub
    ELSE 0

\* s.replace(old, new), old non-empty: leftmost occurrences, not overlapping
RECURSIVE Replace(_, _, _)
Replace(s, old, new) ==
    IF Len(s) < Len(old) THEN s
    ELSE IF StartsWith(s, old) THEN new \o Replace(Drop(s, Len(old)), old, new)
    ELSE At(s, 1) \o Replace(Drop(s, 1), old, new)

\* s.split(sep): the list of the pieces between the occurrences of sep
RECURSIVE Split(_, _)
Split(s, sep) ==
    LET i == Find(sep, s)
    IN IF i = 0 THEN <<s>>
       ELSE <<Take(s, i - 1)>> \o Split(Drop(s, i - 1 + Len(sep)), sep)

Digits == {"0", "1", "2", "3", "4", "5", "6", "7", "8", "9"}
Uppers == {"A", "B", "C", "D", "E", "F", "G", "H", "I", "J", "K", "L", "M",
           "N", "O", "P", "Q", "R", "S", "T", "U", "V", "W", "X", "Y", "Z"}

\* the printable characters of ASCII in the order of their code points:
\* from the space (32) to the underscore (95), and from "a" (97) to the
\* tilde (126); the strings of the model are made of these (the grave
\* accent, 96, cannot be written in a string of this module) and of the
\* tab (9), the line feed (10), the form feed (12) and the carriage
\* return (13)
PrintableTo95 == " !\"#$%&'()*+,-./0123456789:;<=>?@ABCDEFGHIJKLMNOPQRSTUVWXYZ[\\]^_"
PrintableFrom97 == "abcdefghijklmnopqrstuvwxyz{|}~"

\* the code point of every such character
CodePoints ==
    [c \in {At(PrintableTo95, n) : n \in 1..Len(PrintableTo95)}
            \cup {At(PrintableFrom97, n) : n \in 1..Len(PrintableFrom97)} |->
        IF \E n \in 1..Len(PrintableTo95) : At(PrintableTo95, n) = c
        THEN 31 + CHOOSE n \in 1..Len(PrintableTo95) : At(PrintableTo95, n) = c
        ELSE 96 + CHOOSE n \in 1..Len(PrintableFrom97) : At(PrintableFrom97, n) = c]
    @@ ("\t" :> 9 @@ "\n" :> 10 @@ "\f" :> 12 @@ "\r" :> 13)

\* the characters of the model's strings that \s matches
WhiteSpace == {" ", "\t", "\n", "\r", "\f"}

\* ord(c)
Ord(c) == IF c \in DOMAIN CodePoints THEN CodePoints[c] ELSE 0

IsDigits(s) == \A i \in 1..Len(s) : At(s, i) \in Digits

\* the number of digits at the head of s
RECURSIVE DigitRun(_)
DigitRun(s) ==
    IF s # "" /\ At(s, 1) \in Digits THEN 1 + DigitRun(Drop(s, 1)) ELSE 0
DigitVal(c) == Ord(c) - 48

\* the number of white space characters at the head of s
RECURSIVE SpaceRun(_)
SpaceRun(s) ==
    IF s # "" /\ At(s, 1) \in WhiteSpace THEN 1 + SpaceRun(Drop(s, 1)) ELSE 0

RECURSIVE StrToNat(_)
StrToNat(s) ==
    IF s = "" THEN 0
    ELSE 10 * StrToNat(Take(s, Len(s) - 1)) + DigitVal(At(s, Len(s)))

RECURSIVE NatToStr(_)
NatToStr(n) ==
    IF n < 10 THEN At(PrintableTo95, 17 + n)
    ELSE NatToStr(n \div 10) \o At(PrintableTo95, 17 + (n % 10))

\* c.lower()
Lower(c) == IF c \in Uppers THEN At(PrintableFrom97, Ord(c) - 64) ELSE c

\* ------------------------------------------------------------------------
\* re.search(pattern, s) of line 510, for the patterns made of literal
\* characters, ".", "\d", character classes "[...]" with ranges, the
\* quantifiers "+", "*", "?", "{n}" and the anchors "^" (first) and "$" (last).
RECURSIVE ClassHas(_, _)
ClassHas(body, c) ==
    IF body = "" THEN FALSE
    ELSE IF Len(body) >= 3 /\ At(body, 2) = "-"
    THEN \/ (Ord(At(body, 1)) <= Ord(c) /\ Ord(c) <= Ord(At(body, 3)) /\ Ord(c) > 0)
         \/ ClassHas(Drop(body, 3), c)
    ELSE At(body, 1) = c \/ ClassHas(Drop(body, 1), c)

AtomLen(p) ==
    IF At(p, 1) = "[" /\ Contains("]", p) THEN Find("]", p)
    ELSE IF At(p, 1) = "\\" /\ Len(p) >= 2 THEN 2
    ELSE 1

AtomMatches(atom, c) ==
    IF atom = "." THEN c # "\n"
    ELSE IF Len(atom) >= 2 /\ At(atom, 1) = "["
    THEN LET body == SubSeq(atom, 2, Len(atom) - 1)
         IN IF StartsWith(body, "^") THEN ~ClassHas(Drop(body, 1), c)
            ELSE ClassHas(body, c)
    ELSE IF atom = "\\d" THEN c \in Digits
    ELSE IF Len(atom) = 2 THEN c = At(atom, 2)
    ELSE c = atom

RECURSIVE ReMatchHere(_, _)
ReMatchHere(p, s) ==
    IF p = "" THEN TRUE
    ELSE IF p = "$" THEN s = "" \/ s = "\n"
    ELSE LET a == AtomLen(p)
             atom == Take(p, a)
             r == Drop(p, a)
             q == IF r = "" THEN "" ELSE At(r, 1)
             Run(k) == k <= Len(s) /\ \A i \in 1..k : AtomMatches(atom, At(s, i))
         IN CASE q = "+" -> \E k \in 1..Len(s) :
                                Run(k) /\ ReMatchHere(Drop(r, 1), Drop(s, k))
              [] q = "*" -> \E k \in 0..Len(s) :
                                Run(k) /\ ReMatchHere(Drop(r, 1), Drop(s, k))
              [] q = "?" -> \E k \in 0..1 :
                                Run(k) /\ ReMatchHere(Drop(r, 1), Drop(s, k))
              [] q = "{" /\ Contains("}", r) ->
                    LET c == Find("}", r)
                        n == StrToNat(SubSeq(r, 2, c - 1))
                    IN Run(n) /\ ReMatchHere(Drop(r, c), Drop(s, n))
              [] OTHER -> Run(1) /\ ReMatchHere(r, Drop(s, 1))

re_search(p, s) ==
    IF StartsWith(p, "^") THEN ReMatchHere(Drop(p, 1), s)
    ELSE \E j \in 0..Len(s) : ReMatchHere(p, Drop(s, j))

\* "not pattern": the pattern is None or the empty string
NoPattern(pattern) == pattern = None \/ pattern = ""

\* match_regex, lines 506-510
match_regex_no_vacuous(pattern, data_str) ==
    IF NoPattern(pattern) THEN FALSE
    ELSE re_search(pattern, data_str)

match_regex(pattern, data_str) ==
    IF NoPattern(pattern) THEN TRUE
    ELSE re_search(pattern, data_str)

\* match_boolean, lines 513-528
BOOLEAN_LITERALS == <<"True", "true", "TRUE", "T", "1", "1.0",
                      "False", "false", "FALSE", "F", "0", "0.0">>

RECURSIVE LowerStr(_)
LowerStr(s) == IF s = "" THEN "" ELSE Lower(At(s, 1)) \o LowerStr(Drop(s, 1))

match_boolean_any_case(data_str) ==
    \E k \in 1..Len(BOOLEAN_LITERALS) : LowerStr(BOOLEAN_LITERALS[k]) = LowerStr(data_str)

match_boolean(data_str) ==
    \E k \in 1..Len(BOOLEAN_LITERALS) : BOOLEAN_LITERALS[k] = data_str

\* ------------------------------------------------------------------------
\* match_datetime, lines 453-503.

\* iso_conv, lines 456-472, in the order of the dict
ISO_CONV == << <<"YYYY", "%Y">>, <<"MM", "%m">>, <<"DDD", "%j">>,
               <<"DD", "%d">>, <<"D", "%w">>, <<"ww", "%W">>,
               <<"+hh:mm", "%z">>, <<"-hh:mm", "%z">>, <<"+hhmm", "%z">>,
               <<"-hhmm", "%z">>, <<"Z", "%z">>, <<"hh", "%H">>,
               <<"mm", "%M">>, <<"sss", "%f">>, <<"ss", "%S">> >>

\* the loop of lines 473-476, from entry k of the table on
RECURSIVE iso2pyFrom(_, _)
iso2pyFrom(py_str, k) ==
    IF k > Len(ISO_CONV) THEN py_str
    ELSE iso2pyFrom(Replace(py_str, ISO_CONV[k][1], ISO_CONV[k][2]), k + 1)

iso2py(iso_str) == iso2pyFrom(iso_str, 1)

\* datetime.strptime(data_str, pattern) of line 500: whether it returns
\* (TRUE) or raises (FALSE), for a format whose directives are those of
\* iso_conv and "%%".  The format is compiled to a regular expression: a
\* directive becomes a group of alternatives, a run of white space
\* becomes \s+, every other character matches itself ignoring case.  The
\* expression is matched at the head of the text, the alternatives tried
\* in their order, and the first match has to end where the text ends.

\* the offsets %z matches at the head of t, the text after the sign, the
\* hours, a colon if there is one and the minutes, which are n characters:
\* with seconds and a fraction of 6 to 1 digits, with seconds, without
ZoneTail(t, n, c) ==
    IF Len(t) >= c + 2 /\ At(t, c + 1) \in {"0", "1", "2", "3", "4", "5"}
                       /\ At(t, c + 2) \in Digits
    THEN (IF Len(t) > c + 3 /\ At(t, c + 3) = "." /\ At(t, c + 4) \in Digits
          THEN [k \in 1..(IF DigitRun(Drop(t, c + 3)) > 6 THEN 6
                          ELSE DigitRun(Drop(t, c + 3))) |->
                    n + c + 4 + (IF DigitRun(Drop(t, c + 3)) > 6 THEN 6
                                 ELSE DigitRun(Drop(t, c + 3))) - k]
          ELSE << >>)
         \o <<n + c + 2, n>>
    ELSE <<n>>

\* [+-]\d\d:?[0-5]\d(:?[0-5]\d(\.\d{1,6})?)?|Z at the head of s, where c
\* is 1 when a colon follows the hours
ZoneLens(s, c) ==
    IF StartsWith(s, "Z") THEN <<1>>
    ELSE IF /\ Len(s) >= 5 + c
            /\ At(s, 1) \in {"+", "-"}
            /\ IsDigits(SubSeq(s, 2, 3))
            /\ At(s, 4 + c) \in {"0", "1", "2", "3", "4", "5"}
            /\ At(s, 5 + c) \in Digits
    THEN ZoneTail(Drop(s, 5 + c), 5 + c,
                  IF Len(s) > 5 + c /\ At(s, 6 + c) = ":" THEN 1 ELSE 0)
    ELSE << >>

\* the lengths a directive may take at the head of s
DirLens(d, s) ==
    CASE d = "Y" -> <<4>>
      [] d \in {"m", "d", "H", "M", "S", "W"} -> <<2, 1>>
      [] d = "j" -> <<3, 2, 1>>
      [] d = "w" -> <<1>>
      [] d = "f" -> <<6, 5, 4, 3, 2, 1>>
      [] d = "z" -> ZoneLens(s, IF Len(s) >= 4 /\ At(s, 4) = ":" THEN 1 ELSE 0)
      [] d = "%" -> <<1>>
      [] d = "\\s" -> [k \in 1..SpaceRun(s) |-> SpaceRun(s) + 1 - k]
      [] OTHER -> << >>

\* what strptime does with a matched offset z: a colon after the hours is
\* taken out, and then one after the minutes has to be there if seconds
\* follow; without the first colon a second one is read as a digit of the
\* seconds; the offset has to be less than 24 hours
ZoneValid(z) ==
    \/ z = "Z"
    \/ /\ StrToNat(SubSeq(z, 2, 3)) <= 23
       /\ IF At(z, 4) = ":" THEN Len(z) > 6 => At(z, 7) = ":"
          ELSE Len(z) > 5 => At(z, 6) # ":"

\* the alternatives of the directives: %d also takes a space and a digit
\* from 1 to 9
DirValid(d, tok) ==
    /\ tok # ""
    /\ IF d \in {"z", "\\s"} THEN TRUE
       ELSE IF d = "%" THEN tok = "%"
       ELSE IF d = "d" /\ At(tok, 1) = " "
       THEN Len(tok) = 2 /\ At(tok, 2) \in Digits \ {"0"}
       ELSE /\ IsDigits(tok)
            /\ LET n == StrToNat(tok)
               IN CASE d = "Y" -> TRUE
                    [] d = "m" -> n >= 1 /\ n <= 12
                    [] d = "d" -> n >= 1 /\ n <= 31
                    [] d = "H" -> IF Len(tok) = 2 THEN n <= 23 ELSE TRUE
                    [] d = "M" -> n <= 59
                    [] d = "S" -> n <= 61
                    [] d = "W" -> n <= 53
                    [] d = "j" -> n >= 1 /\ n <= 366
                    [] d = "w" -> n <= 6
                    [] OTHER -> TRUE

\* what a match gives: rest is the text after it; Y, j, W and w are -1,
\* 0, -1 and -1 as long as the year, the day of the year, the week and
\* the day of the week are None
StrpFail == [ok |-> FALSE, rest |-> "", Y |-> -1, m |-> 0, d |-> 0, S |-> 0,
             z |-> FALSE, j |-> 0, W |-> -1, w |-> -1]
StrpStart == [ok |-> TRUE, rest |-> "", Y |-> -1, m |-> 1, d |-> 1, S |-> 0,
              z |-> TRUE, j |-> 0, W |-> -1, w |-> -1]

StrpSet(acc, d, tok) ==
    CASE d = "Y" -> [acc EXCEPT !.Y = StrToNat(tok)]
      [] d = "m" -> [acc EXCEPT !.m = StrToNat(tok)]
      [] d = "d" -> [acc EXCEPT !.d = StrToNat(IF At(tok, 1) = " " THEN Drop(tok, 1) ELSE tok)]
      [] d = "S" -> [acc EXCEPT !.S = StrToNat(tok)]
      [] d = "z" -> [acc EXCEPT !.z = ZoneValid(tok)]
      [] d = "j" -> [acc EXCEPT !.j = StrToNat(tok)]
      [] d = "W" -> [acc EXCEPT !.W = StrToNat(tok)]
      [] d = "w" -> [acc EXCEPT !.w = StrToNat(tok)]
      [] OTHER -> acc

RECURSIVE StrpParse(_, _, _), StrpTry(_, _, _, _, _)
StrpParse(fmt, s, acc) ==
    IF fmt = "" THEN [acc EXCEPT !.rest = s]
    ELSE IF At(fmt, 1) = "%"
    THEN IF Len(fmt) < 2 THEN StrpFail
         ELSE StrpTry(At(fmt, 2), Drop(fmt, 2), s, acc, 1)
    ELSE IF At(fmt, 1) \in WhiteSpace
    THEN StrpTry("\\s", Drop(fmt, SpaceRun(fmt)), s, acc, 1)
    ELSE IF s # "" /\ Lower(At(s, 1)) = Lower(At(fmt, 1))
    THEN StrpParse(Drop(fmt, 1), Drop(s, 1), acc)
    ELSE StrpFail

StrpTry(d, rest, s, acc, k) ==
    IF k > Len(DirLens(d, s)) THEN StrpFail
    ELSE LET n == DirLens(d, s)[k]
             tok == Take(s, n)
             r == IF Len(s) >= n /\ DirValid(d, tok)
                  THEN StrpParse(rest, Drop(s, n), StrpSet(acc, d, tok))
                  ELSE StrpFail
         IN IF r.ok THEN r ELSE StrpTry(d, rest, s, acc, k + 1)

IsLeap(y) == y % 4 = 0 /\ (y % 100 # 0 \/ y % 400 = 0)

DaysIn(y, m) ==
    IF m = 2 THEN (IF IsLeap(y) THEN 29 ELSE 28)
    ELSE IF m \in {4, 6, 9, 11} THEN 30 ELSE 31

\* the directives of a format, in order ("%%" is none)
RECURSIVE Directives(_)
Directives(fmt) ==
    IF Len(fmt) < 2 THEN << >>
    ELSE IF At(fmt, 1) # "%" THEN Directives(Drop(fmt, 1))
    ELSE (IF At(fmt, 2) = "%" THEN << >> ELSE <<At(fmt, 2)>>) \o Directives(Drop(fmt, 2))

\* a directive used twice makes the compiled expression invalid
DupDirective(fmt) ==
    LET q == Directives(fmt)
    IN \E i, j \in DOMAIN q : i < j /\ q[i] = q[j]

\* the days before 1 January of year y, from 1 January of year 1
DaysBeforeYear(y) ==
    (y - 1) * 365 + (y - 1) \div 4 - (y - 1) \div 100 + (y - 1) \div 400

\* _calc_julian_from_U_or_W for %W, whose weeks start on Monday
calc_julian_from_U_or_W(year, week_of_year, day_of_week) ==
    LET first_weekday == DaysBeforeYear(year) % 7
        week_0_length == (7 - first_weekday) % 7
    IN IF week_of_year = 0 THEN 1 + day_of_week - first_weekday
       ELSE 1 + week_0_length + 7 * (week_of_year - 1) + day_of_week

\* the date strptime makes of a match r, whether it exists: from the day
\* of the year when %j gave one or %W and %w give one, else from the month
\* and the day.  Years run from 1 to 9999; without a year 1900 is taken,
\* and for 29 February 1904 in the computation and 1900 in the result.
StrpDate(r) ==
    LET leap_year_fix == r.Y = -1 /\ r.m = 2 /\ r.d = 29
        year == IF r.Y # -1 THEN r.Y ELSE IF leap_year_fix THEN 1904 ELSE 1900
        weekday == IF r.w = 0 THEN 6 ELSE r.w - 1
        by_week == r.j = 0 /\ r.w # -1 /\ r.W # -1
    IN IF year < 1 THEN FALSE
       ELSE IF r.j = 0 /\ ~by_week
       THEN ~leap_year_fix /\ r.d <= DaysIn(year, r.m)
       ELSE LET raw == IF by_week THEN calc_julian_from_U_or_W(year, r.W, weekday)
                       ELSE r.j
                y == IF by_week /\ raw <= 0 THEN year - 1 ELSE year
                julian == IF by_week /\ raw <= 0
                          THEN raw + (IF IsLeap(year - 1) THEN 366 ELSE 365)
                          ELSE raw
                len == IF IsLeap(y) THEN 366 ELSE 365
            IN /\ y >= 1
               /\ DaysBeforeYear(y) + julian <= 3652059
               /\ leap_year_fix =>
                    ~(IF julian <= len THEN IsLeap(y) /\ julian = 60
                      ELSE IsLeap(y + 1) /\ julian - len = 60)

strptime_ok(data_str, fmt) ==
    /\ ~DupDirective(fmt)
    /\ LET r == StrpParse(fmt, data_str, StrpStart)
       IN /\ r.ok
          /\ r.rest = ""
          /\ r.S <= 59
          /\ r.z
          /\ StrpDate(r)

RECURSIVE match_datetime(_, _)
match_datetime(pattern, data_str) ==
    IF NoPattern(pattern) THEN TRUE
    ELSE IF Contains("/", pattern)
    THEN IF ~Contains("/", data_str) THEN FALSE
         ELSE /\ match_datetime(Split(pattern, "/")[1], Split(data_str, "/")[1])
              /\ match_datetime(Split(pattern, "/")[2], Split(data_str, "/")[2])
    ELSE IF At(pattern, 1) = "P" \/ At(pattern, 1) = "R"
    THEN match_regex("^" \o Replace(pattern, "n", "[0-9]+") \o "$", data_str)
    ELSE strptime_ok(data_str, iso2py(pattern))

\* match_format, lines 531-539
match_format_boolean_first(attr_type, pattern, data_str) ==
    IF Contains("Boolean", attr_type) THEN match_boolean(data_str)
    ELSE IF Contains("DateTime", attr_type) THEN match_datetime(pattern, data_str)
    ELSE IF Contains("Numeric", attr_type) \/ Contains("Text", attr_type)
    THEN match_regex(pattern, data_str)
    ELSE TRUE

match_format(attr_type, pattern, data_str) ==
    IF Contains("DateTime", attr_type) THEN match_datetime(pattern, data_str)
    ELSE IF Contains("Numeric", attr_type) \/ Contains("Text", attr_type)
    THEN match_regex(pattern, data_str)
    ELSE IF Contains("Boolean", attr_type) THEN match_boolean(data_str)
    ELSE TRUE

\* ------------------------------------------------------------------------
\* Cells of the data frame: a Python str, an int, a bool, or the missing
\* value NaN.  Strings of the model carry no lone surrogate.
StrCell(v) == [t |-> "str", s |-> v, n |-> 0]
IntCell(k) == [t |-> "int", s |-> "", n |-> k]
BoolCell(b) == [t |-> "bool", s |-> "", n |-> IF b THEN 1 ELSE 0]
NaN == [t |-> "nan", s |-> "", n |-> 0]

\* str(x) for a cell x (lines 338, 387, 544)
PyStr(x) ==
    CASE x.t = "str" -> x.s
      [] x.t = "int" -> IF x.n < 0 THEN "-" \o NatToStr(0 - x.n) ELSE NatToStr(x.n)
      [] x.t = "bool" -> IF x.n = 1 THEN "True" ELSE "False"
      [] OTHER -> "nan"

\* pd.isna(x) (line 337)
isna(x) == x.t = "nan"

\* the text an f-string puts for a pattern or an encoding name that may be None
FmtStr(v) == IF v = None THEN "None" ELSE v

\* ------------------------------------------------------------------------
\* json.loads(data_entry) of line 350 followed by the test of line 355, for
\* documents whose arrays hold strings without escapes, integers, true,
\* false and null: ok says that the text is a JSON array, items holds
\* str(data_item) for each of its elements.
NotAList == [ok |-> FALSE, items |-> << >>]

RECURSIVE SkipWs(_)
SkipWs(s) ==
    IF s # "" /\ At(s, 1) \in {" ", "\t", "\n", "\r"} THEN SkipWs(Drop(s, 1)) ELSE s

\* the element at the head of s: its length in the text and its str()
JsonElem(s) ==
    IF StartsWith(s, "\"")
    THEN LET close == Find("\"", Drop(s, 1))
             body == Take(Drop(s, 1), close - 1)
         IN IF close = 0 \/ Contains("\\", body)
               \/ \E n \in 1..Len(body) : At(body, n) \in WhiteSpace \ {" "}
            THEN [len |-> 0, str |-> ""]
            ELSE [len |-> close + 1, str |-> body]
    ELSE IF StartsWith(s, "true") THEN [len |-> 4, str |-> "True"]
    ELSE IF StartsWith(s, "false") THEN [len |-> 5, str |-> "False"]
    ELSE IF StartsWith(s, "null") THEN [len |-> 4, str |-> "None"]
    ELSE LET neg == StartsWith(s, "-")
             num == IF neg THEN Drop(s, 1) ELSE s
             k == DigitRun(num)
             txt == Take(num, k)
         IN IF k = 0 \/ (k > 1 /\ At(num, 1) = "0") \/ StartsWith(Drop(num, k), ".")
               \/ StartsWith(Drop(num, k), "e") \/ StartsWith(Drop(num, k), "E")
            THEN [len |-> 0, str |-> ""]
            ELSE [len |-> k + (IF neg THEN 1 ELSE 0),
                  str |-> IF neg /\ txt # "0" THEN "-" \o txt ELSE txt]

RECURSIVE JsonElems(_, _)
JsonElems(s, acc) ==
    LET e == JsonElem(s)
        after == SkipWs(Drop(s, e.len))
    IN IF e.len = 0 THEN NotAList
       ELSE IF StartsWith(after, ",")
       THEN JsonElems(SkipWs(Drop(after, 1)), Append(acc, e.str))
       ELSE IF StartsWith(after, "]") /\ SkipWs(Drop(after, 1)) = ""
       THEN [ok |-> TRUE, items |-> Append(acc, e.str)]
       ELSE NotAList

json_array(data_entry) ==
    LET s == SkipWs(data_entry)
    IN IF ~StartsWith(s, "[") THEN NotAList
       ELSE LET inner == SkipWs(Drop(s, 1))
            IN IF StartsWith(inner, "]")
               THEN (IF SkipWs(Drop(inner, 1)) = ""
                     THEN [ok |-> TRUE, items |-> << >>] ELSE NotAList)
               ELSE JsonElems(inner, << >>)

\* ------------------------------------------------------------------------
\* Character encoding checks, lines 542-580.

\* is_valid_utf8, lines 542-549: the encode and the decode succeed
is_valid_utf8(data_input) == Ret(TRUE)

\* is_valid_utf16le, lines 552-559: a str has no decode method, and the
\* AttributeError is not the exception the handler catches
is_valid_utf16le(data_input) == Exc("AttributeError")

\* is_valid_iso8859_1, lines 562-569: as is_valid_utf16le
is_valid_iso8859_1(data_input) == Exc("AttributeError")

\* match_character_encoding, lines 572-580
match_character_encoding_fail_open(data_str, attr_char_encode) ==
    IF attr_char_encode = "utf-8" THEN is_valid_utf8(data_str)
    ELSE IF attr_char_encode = "utf-16le" THEN is_valid_utf16le(data_str)
    ELSE IF attr_char_encode = "iso-8859-1" THEN is_valid_iso8859_1(data_str)
    ELSE Ret(TRUE)

match_character_encoding(data_str, attr_char_encode) ==
    IF attr_char_encode = "utf-8" THEN is_valid_utf8(data_str)
    ELSE IF attr_char_encode = "utf-16le" THEN is_valid_utf16le(data_str)
    ELSE IF attr_char_encode = "iso-8859-1" THEN is_valid_iso8859_1(data_str)
    ELSE Ret(FALSE)

\* ------------------------------------------------------------------------
\* The schema bundle (class OCABundle, lines 217-306).  attributes is the
\* dict of the capture base in its order; each of the four overlays is
\* absent from overlays_dict (present = FALSE) or carries the map from
\* attribute names to its values.
Absent == [present |-> FALSE, map |-> << >>]
Overlay(m) == [present |-> TRUE, map |-> m]

Range(f) == {f[i] : i \in DOMAIN f}
SeqNames(attributes) == [i \in DOMAIN attributes |-> attributes[i].name]

\* get_attributes, lines 258-259: the attribute names, as a list and as a set
get_attributes(b) == SeqNames(b.attributes)
AttrSet(b) == Range(get_attributes(b))

\* get_attribute_type, lines 262-263
get_attribute_type(b, attribute_name) ==
    (CHOOSE e \in Range(b.attributes) : e.name = attribute_name).type

\* get_attribute_format, lines 266-273
get_attribute_format(b, attribute_name) ==
    IF b.format.present /\ attribute_name \in DOMAIN b.format.map
    THEN b.format.map[attribute_name]
    ELSE None

\* get_attribute_conformance, lines 276-284
get_attribute_conformance(b, attribute_name) ==
    IF b.conformance.present /\ attribute_name \in DOMAIN b.conformance.map
    THEN b.conformance.map[attribute_name] = "M"
    ELSE FALSE

\* get_entry_codes, lines 287-293
get_entry_codes(b) ==
    IF b.entry_code.present THEN b.entry_code.map ELSE << >>

\* get_character_encoding, lines 296-306: a missing overlay and a missing
\* entry both end in the handler, which returns None; an entry that is
\* falsy (the empty string, or None for a JSON null) gives the default
get_character_encoding(b, attribute_name) ==
    IF ~b.character_encoding.present THEN None
    ELSE IF DOMAIN b.character_encoding.map = {} THEN DEFAULT_ENCODING
    ELSE IF attribute_name \notin DOMAIN b.character_encoding.map THEN None
    ELSE IF b.character_encoding.map[attribute_name] \in {"", None} THEN DEFAULT_ENCODING
    ELSE b.character_encoding.map[attribute_name]

\* ------------------------------------------------------------------------
\* The data set (class OCADataSet, lines 63-77): the column names in the
\* order of the data frame, the number of rows, and the cells of each
\* column, indexed from 0.
ColSet(ds) == Range(ds.cols)
Rows(ds) == 0..(ds.rows - 1)

\* repr(s) of a str: between double quotes when it holds an apostrophe
\* and no double quote, else between apostrophes with every apostrophe
\* escaped; a backslash is doubled
Repr(s) ==
    LET e == Replace(Replace(Replace(Replace(Replace(s, "\\", "\\\\"),
                 "\t", "\\t"), "\n", "\\n"), "\r", "\\r"), "\f", "\\x0c")
    IN IF Contains("'", s) /\ ~Contains("\"", s) THEN "\"" \o e \o "\""
       ELSE "'" \o Replace(e, "'", "\\'") \o "'"

\* str(list) for a list of entry codes (line 390), which writes the repr
\* of each code
RECURSIVE JoinCodes(_)
JoinCodes(codes) ==
    IF codes = << >> THEN ""
    ELSE Repr(Head(codes))
         \o (IF Len(codes) > 1 THEN ", " ELSE "") \o JoinCodes(Tail(codes))

ListStr(codes) == "[" \o JoinCodes(codes) \o "]"

\* a dict built from the rows that got a message
Recorded(all) == [i \in {j \in DOMAIN all : all[j] # ""} |-> all[i]]
RowMap(rows, msg(_)) == Recorded([i \in rows |-> msg(i)])

\* ------------------------------------------------------------------------
\* The four passes, lines 309-403.

\* validate_attribute, lines 309-321
validate_attribute_missing_first(b, ds) ==
    LET NotInSchema(i) == i \notin AttrSet(b)
        NotInData(i) == i \notin ColSet(ds)
        unmatched == SelectSeq(ds.cols, NotInSchema)
        missing == SelectSeq(get_attributes(b), NotInData)
    IN [k \in DOMAIN missing |-> <<missing[k], ATTR_MISSING_MSG>>]
       \o [k \in DOMAIN unmatched |-> <<unmatched[k], ATTR_UNMATCH_MSG>>]

validate_attribute(b, ds) ==
    LET NotInSchema(i) == i \notin AttrSet(b)
        NotInData(i) == i \notin ColSet(ds)
        unmatched == SelectSeq(ds.cols, NotInSchema)
        missing == SelectSeq(get_attributes(b), NotInData)
    IN [k \in DOMAIN unmatched |-> <<unmatched[k], ATTR_UNMATCH_MSG>>]
       \o [k \in DOMAIN missing |-> <<missing[k], ATTR_MISSING_MSG>>]

\* The body of the row loop of validate_format, lines 337-375, for one cell
\* of an attribute that has a column: the message recorded for the row
\* ("" when none is), whether json.loads was applied to the cell, and how
\* many times match_format was called.
FirstFalse(oks) ==
    IF \E k \in DOMAIN oks : ~oks[k]
    THEN CHOOSE k \in DOMAIN oks : ~oks[k] /\ \A j \in 1..(k - 1) : oks[j]
    ELSE 0

FirstFailing(attr_type, attr_format, items) ==
    FirstFalse([k \in DOMAIN items |-> match_format(attr_type, attr_format, items[k])])

ArrayCell_any_json(data_arr, k, mismatch) ==
    IF ~data_arr.ok
    THEN [msg |-> "", parsed |-> TRUE, checks |-> 0]
    ELSE IF k # 0
    THEN [msg |-> mismatch, parsed |-> TRUE, checks |-> k]
    ELSE [msg |-> "", parsed |-> TRUE, checks |-> Len(data_arr.items)]

ArrayCell(data_arr, k, mismatch) ==
    IF ~data_arr.ok
    THEN [msg |-> NOT_A_LIST_MSG, parsed |-> TRUE, checks |-> 0]
    ELSE IF k # 0
    THEN [msg |-> mismatch, parsed |-> TRUE, checks |-> k]
    ELSE [msg |-> "", parsed |-> TRUE, checks |-> Len(data_arr.items)]

ArrayEntry(attr_type, attr_format, data_arr, mismatch) ==
    ArrayCell(data_arr, FirstFailing(attr_type, attr_format, data_arr.items), mismatch)

FormatCell_check_first(b, attr, x) ==
    LET attr_type == get_attribute_type(b, attr)
        attr_format == get_attribute_format(b, attr)
        data_entry == IF isna(x) THEN "" ELSE PyStr(x)
    IN IF ~match_format(attr_type, attr_format, data_entry)
       THEN [msg |-> FORMAT_ERR_MSG \o " Supported format: " \o FmtStr(attr_format) \o ".",
             parsed |-> FALSE, checks |-> 1]
       ELSE IF isna(x) /\ get_attribute_conformance(b, attr)
       THEN [msg |-> MISSING_MSG, parsed |-> FALSE, checks |-> 1]
       ELSE [msg |-> "", parsed |-> FALSE, checks |-> 1]

FormatCell_generic_only(b, attr, x) ==
    LET attr_type == get_attribute_type(b, attr)
        attr_format == get_attribute_format(b, attr)
        data_entry == IF isna(x) THEN "" ELSE PyStr(x)
        mismatch == FORMAT_ERR_MSG \o " Supported format: " \o FmtStr(attr_format) \o "."
    IN IF isna(x) /\ get_attribute_conformance(b, attr)
       THEN [msg |-> MISSING_MSG, parsed |-> FALSE, checks |-> 0]
       ELSE IF Contains("Array", attr_type)
       THEN ArrayEntry(attr_type, attr_format, json_array(data_entry), mismatch)
       ELSE IF ~match_format(attr_type, attr_format, data_entry)
       THEN [msg |-> mismatch, parsed |-> FALSE, checks |-> 1]
       ELSE [msg |-> "", parsed |-> FALSE, checks |-> 1]

FormatCell(b, attr, x) ==
    LET attr_type == get_attribute_type(b, attr)
        attr_format == get_attribute_format(b, attr)
        attr_conformance == get_attribute_conformance(b, attr)
        data_entry == IF isna(x) THEN "" ELSE PyStr(x)
        mismatch == FORMAT_ERR_MSG \o " Supported format: " \o FmtStr(attr_format) \o "."
    IN IF isna(x) /\ attr_conformance
       THEN [msg |-> MISSING_MSG, parsed |-> FALSE, checks |-> 0]
       ELSE IF Contains("Array", attr_type)
       THEN ArrayEntry(attr_type, attr_format, json_array(data_entry), mismatch)
       ELSE IF ~match_format(attr_type, attr_format, data_entry)
       THEN IF attr \in DOMAIN get_entry_codes(b)
            THEN [msg |-> EC_FORMAT_ERR_MSG \o " Supported format for entry code is: "
                          \o FmtStr(attr_format) \o ".",
                  parsed |-> FALSE, checks |-> 1]
            ELSE [msg |-> mismatch, parsed |-> FALSE, checks |-> 1]
       ELSE [msg |-> "", parsed |-> FALSE, checks |-> 1]

\* validate_format, lines 325-376: a dict for every schema attribute; the
\* KeyError of an attribute without a column is caught for every row
validate_format_absent_is_missing(b, ds) ==
    [attr \in AttrSet(b) |->
        IF attr \in ColSet(ds)
        THEN LET msg(i) == FormatCell(b, attr, ds.cell[attr][i]).msg
             IN RowMap(Rows(ds), msg)
        ELSE IF get_attribute_conformance(b, attr)
        THEN [i \in Rows(ds) |-> MISSING_MSG]
        ELSE << >>]

validate_format(b, ds) ==
    [attr \in AttrSet(b) |->
        IF attr \in ColSet(ds)
        THEN LET msg(i) == FormatCell(b, attr, ds.cell[attr][i]).msg
             IN RowMap(Rows(ds), msg)
        ELSE << >>]

\* validate_entry_code, lines 379-391: data_set.data[attr][i] raises
\* KeyError for an attribute of the overlay that has no column
EntryCodeMsg_skip_missing(codes, x) ==
    IF ~isna(x) /\ ~(\E k \in DOMAIN codes : codes[k] = PyStr(x))
    THEN EC_ERR_MSG \o " Entry codes allowed: " \o ListStr(codes) \o "."
    ELSE ""

EntryCodeMsg(codes, x) ==
    IF ~(\E k \in DOMAIN codes : codes[k] = PyStr(x))
    THEN EC_ERR_MSG \o " Entry codes allowed: " \o ListStr(codes) \o "."
    ELSE ""

validate_entry_code(b, ds) ==
    LET attr_entry_codes == get_entry_codes(b)
    IN IF ds.rows > 0 /\ \E attr \in DOMAIN attr_entry_codes : attr \notin ColSet(ds)
       THEN Exc("KeyError")
       ELSE Ret([attr \in DOMAIN attr_entry_codes |->
                    LET msg(i) == EntryCodeMsg(attr_entry_codes[attr], ds.cell[attr][i])
                    IN RowMap(Rows(ds), msg)])

\* validate_encoding, lines 394-403: the first attribute, in schema order,
\* whose cell cannot be read or whose check raises ends the pass
EncodingMsg(attr_char_encode, x) ==
    IF ~match_character_encoding(x, attr_char_encode).val
    THEN CHE_ERR_MSG \o " Supported character encoding: " \o FmtStr(attr_char_encode) \o "."
    ELSE ""

EncodingAttrExc(b, ds, attr) ==
    IF ds.rows = 0 THEN ""
    ELSE IF attr \notin ColSet(ds) THEN "KeyError"
    ELSE match_character_encoding(ds.cell[attr][0], get_character_encoding(b, attr)).exc

validate_encoding(b, ds) ==
    LET attrs == get_attributes(b)
        Raises(k) == EncodingAttrExc(b, ds, attrs[k]) # ""
    IN IF \E k \in DOMAIN attrs : Raises(k)
       THEN Exc(EncodingAttrExc(b, ds,
                    attrs[CHOOSE k \in DOMAIN attrs :
                            Raises(k) /\ \A j \in 1..(k - 1) : ~Raises(j)]))
       ELSE Ret([attr \in AttrSet(b) |->
                    LET msg(i) == EncodingMsg(get_character_encoding(b, attr),
                                              ds.cell[attr][i])
                    IN RowMap(Rows(ds), msg)])

\* ------------------------------------------------------------------------
\* The state.
VARIABLES
    bundle,     \* the OCABundle validate is called on
    data,       \* the OCADataSet passed to validate
    pc,         \* "ready": validate not yet called; "returned": it returned
                \* rslt; "raised": an exception left it; "report": rslt is a
                \* report in the hands of a caller
    passes,     \* the passes of validate that have returned, in order
    exc,        \* the exception that left validate, "" if none
    rslt,       \* the OCADataSetErr: its four raw error collections
    views,      \* the derived views of rslt
    out,        \* the lines printed by the last call on rslt
    last,       \* the last call made on rslt
    recomputed, \* how many times the views were recomputed since the raw
                \* collections last changed, counted up to 2
    changes,    \* how many changes a caller has made to the raw collections
    probe,      \* a call of one of the matchers: its arguments and outcome
    calls,      \* the validate calls made one after the other on bundle:
                \* for each its data set, its options, what it printed,
                \* its outcome and the report it built, as it was then
    files,      \* the class attribute OCABundle.files of each of the two
                \* zip-based loaders: file name to loaded document
    instances,  \* the OCABundle objects the zip-based loaders have built,
                \* in the order of their construction
    reports     \* the OCADataSetErr objects the validate calls have built,
                \* in the order of their construction: an object is known
                \* by its place, and holds its four raw collections

vars == <<bundle, data, pc, passes, exc, rslt, views, out, last, recomputed,
          changes, probe, calls, files, instances, reports>>

\* OCADataSetErr.__init__, lines 102-112
NewErr == [attr_err |-> << >>, format_err |-> << >>,
           ecode_err |-> << >>, char_encode_err |-> << >>]
NewViews == [missing_attr |-> {}, unmatched_attr |-> {},
             err_cols |-> {}, err_rows |-> {}]
\* files = {} in the class bodies (oca_bundle.py line 18, oca2py.py line 12)
NoFiles == [oca_bundle |-> << >>, oca2py |-> << >>]
NoProbe == [fn |-> "", args |-> << >>, done |-> FALSE, res |-> Ret(FALSE)]

\* ------------------------------------------------------------------------
\* The error report (class OCADataSetErr, lines 81-213).

\* the attributes of a row map dict that have a recorded row, and the rows
ErrCols(errs) == {i \in DOMAIN errs : DOMAIN errs[i] # {}}
ErrRows(errs) == UNION {DOMAIN errs[i] : i \in DOMAIN errs}
AttrsOf(errs, msg) == {errs[k][1] : k \in {j \in DOMAIN errs : errs[j][2] = msg}}

\* update_err, lines 156-176: every loop adds to the sets it finds
update_err_toggle(r, v) ==
    LET cols == ErrCols(r.format_err) \cup ErrCols(r.ecode_err)
                    \cup ErrCols(r.char_encode_err)
    IN [missing_attr |-> v.missing_attr \cup AttrsOf(r.attr_err, ATTR_MISSING_MSG),
        unmatched_attr |-> v.unmatched_attr \cup AttrsOf(r.attr_err, ATTR_UNMATCH_MSG),
        err_rows |-> v.err_rows \cup ErrRows(r.format_err) \cup ErrRows(r.ecode_err)
                        \cup ErrRows(r.char_encode_err),
        err_cols |-> (v.err_cols \ cols) \cup (cols \ v.err_cols)]

update_err(r, v) ==
    [missing_attr |-> v.missing_attr \cup AttrsOf(r.attr_err, ATTR_MISSING_MSG),
     unmatched_attr |-> v.unmatched_attr \cup AttrsOf(r.attr_err, ATTR_UNMATCH_MSG),
     err_rows |-> v.err_rows \cup ErrRows(r.format_err) \cup ErrRows(r.ecode_err)
                     \cup ErrRows(r.char_encode_err),
     err_cols |-> v.err_cols \cup ErrCols(r.format_err) \cup ErrCols(r.ecode_err)
                     \cup ErrCols(r.char_encode_err)]

\* What a call prints.  A set is printed as its names or, above
\* ERR_THRESHOLD, as its size (lines 121-128, 137-140).
Shown(S) ==
    IF Cardinality(S) > ERR_THRESHOLD
    THEN [as |-> "count", count |-> Cardinality(S), names |-> {}]
    ELSE [as |-> "names", count |-> 0, names |-> S]

NoOut == [no_error |-> FALSE,
          attr_line |-> FALSE, missing |-> Shown({}), unmatched |-> Shown({}),
          rows_line |-> FALSE, nrows |-> 0, cols |-> Shown({}),
          first_col |-> "",
          format_head |-> FALSE, no_format |-> FALSE, format_rows |-> << >>,
          ecode_head |-> FALSE, ecode_rows |-> << >>]

\* overview, lines 116-142, on the views update_err has left
overview(r, v) ==
    [NoOut EXCEPT
        !.no_error = (r.attr_err = << >>) /\ v.err_cols = {} /\ v.err_rows = {},
        !.attr_line = r.attr_err # << >>,
        !.missing = IF r.attr_err # << >> THEN Shown(v.missing_attr) ELSE Shown({}),
        !.unmatched = IF r.attr_err # << >> THEN Shown(v.unmatched_attr) ELSE Shown({}),
        !.rows_line = v.err_cols # {} \/ v.err_rows # {},
        !.nrows = IF v.err_cols # {} \/ v.err_rows # {} THEN Cardinality(v.err_rows) ELSE 0,
        !.cols = IF v.err_cols # {} \/ v.err_rows # {} THEN Shown(v.err_cols) ELSE Shown({})]

\* get_err_col, lines 195-213, on the views update_err has left
get_err_col(r, v, attr_name) ==
    IF v.err_cols = {} THEN [NoOut EXCEPT !.no_error = TRUE]
    ELSE [NoOut EXCEPT
            !.format_head = attr_name \in DOMAIN r.format_err,
            !.no_format = attr_name \notin DOMAIN r.format_err,
            !.format_rows = IF attr_name \in DOMAIN r.format_err
                            THEN r.format_err[attr_name] ELSE << >>,
            !.ecode_head = attr_name \in DOMAIN r.ecode_err,
            !.ecode_rows = IF attr_name \in DOMAIN r.ecode_err
                           THEN r.ecode_err[attr_name] ELSE << >>]

\* s < t for Python strings
RECURSIVE StrLess(_, _)
StrLess(s, t) ==
    IF t = "" THEN FALSE
    ELSE IF s = "" THEN TRUE
    ELSE IF At(s, 1) = At(t, 1) THEN StrLess(Drop(s, 1), Drop(t, 1))
    ELSE Ord(At(s, 1)) < Ord(At(t, 1))

\* sorted(list(err_cols))[0], line 150
FirstCol(cols) == CHOOSE c \in cols : \A d \in cols \ {c} : StrLess(c, d)

\* first_err_col, lines 145-153, on the views update_err has left; the
\* get_err_col it calls recomputes the views once more
first_err_col(r, v) ==
    IF v.err_cols = {} THEN [NoOut EXCEPT !.no_error = TRUE]
    ELSE [get_err_col(r, v, FirstCol(v.err_cols)) EXCEPT !.first_col = FirstCol(v.err_cols)]

\* ------------------------------------------------------------------------
\* The bundles and data sets validate is run on.
InjSeqs(S, n) ==
    UNION {{q \in [1..k -> S] : \A i, j \in 1..k : i # j => q[i] # q[j]} : k \in 0..n}

Attr(name, type) == [name |-> name, type |-> type]
Map1(k, v) == [x \in {k} |-> v]
Map2(k1, v1, k2, v2) == [x \in {k1, k2} |-> IF x = k1 THEN v1 ELSE v2]

\* Bundles that differ in which attributes and overlay entries exist
StructType(name) == IF name = "a" THEN "Text" ELSE "Boolean"
StructBundles ==
    {[attributes |-> [i \in DOMAIN q |-> Attr(q[i], StructType(q[i]))],
      format |-> f, conformance |-> c, entry_code |-> e, character_encoding |-> ce] :
        q \in InjSeqs({"a", "b"}, MaxAttrs),
        f \in {Absent, Overlay(Map1("a", "^[A-Z]+$"))},
        c \in {Absent, Overlay(Map2("a", "M", "b", "O"))},
        e \in {Absent, Overlay(Map1("a", <<"B", "nan">>)),
               Overlay(Map2("a", <<"A">>, "b", <<"1", "it's">>)),
               Overlay(Map1("x", <<"B">>))},
        ce \in {Absent, Overlay(<< >>), Overlay(Map1("a", "utf-8")),
                Overlay(Map2("a", "", "b", "utf-16le")),
                Overlay(Map2("a", None, "b", "latin-1")),
                Overlay(Map2("a", "iso-8859-1", "b", "ascii"))}}

StructCells(name) ==
    IF name = "a" THEN {NaN, StrCell("A")}
    ELSE IF name = "b" THEN {IntCell(1), StrCell("nan")}
    ELSE {StrCell("A")}

DataSetsOver(colseqs, rowcounts, Cells(_)) ==
    UNION {UNION {{[cols |-> q, rows |-> r, cell |-> f] :
                    f \in {g \in [Range(q) -> [0..(r - 1) -> UNION {Cells(c) : c \in Range(q)}]] :
                            \A c \in Range(q) : \A i \in 0..(r - 1) : g[c][i] \in Cells(c)}} :
                  r \in IF q = << >> THEN {0} ELSE rowcounts} :
           q \in colseqs}

StructDataSets == DataSetsOver(InjSeqs({"a", "b", "x"}, MaxAttrs), 0..MaxRows, StructCells)

\* Bundles of one attribute that differ in its type, pattern, conformance
\* and entry codes, and data sets with its column
TypeTags == {"Text", "Numeric", "Boolean", "DateTime", "Array[Text]",
             "Array[Boolean]", "Binary"}
FormatBundles ==
    {[attributes |-> <<Attr("a", t)>>,
      format |-> f, conformance |-> c, entry_code |-> e, character_encoding |-> Absent] :
        t \in TypeTags,
        f \in {Absent, Overlay(Map1("b", "[0-9]")), Overlay(Map1("a", "^[A-Z]+$")),
               Overlay(Map1("a", "YYYY-MM-DD"))},
        c \in {Absent, Overlay(Map1("a", "M")), Overlay(Map1("a", "O"))},
        e \in {Absent, Overlay(Map1("a", <<"AB">>))}}

FormatCells(name) ==
    {NaN, StrCell("AB"), StrCell("ab"), IntCell(7), StrCell("yes"), BoolCell(TRUE),
     StrCell("2023-05-17"), StrCell("[\"AB\", \"ab\"]"), StrCell("[true, \"yes\"]")}

FormatDataSets == DataSetsOver({<<"a">>}, 1..MaxRows, FormatCells)

\* ------------------------------------------------------------------------
\* validate, lines 429-450.  The notices of lines 436-442 only print.  The
\* passes run in the order of lines 446-449; the exception of a pass leaves
\* validate, and rslt is then not returned.
InitWith(B, D) ==
    /\ bundle \in B
    /\ data \in D
    /\ pc = "ready"
    /\ passes = << >>
    /\ exc = ""
    /\ rslt = NewErr
    /\ views = NewViews
    /\ out = NoOut
    /\ last = "init"
    /\ recomputed = 0
    /\ changes = 0
    /\ probe = NoProbe
    /\ calls = << >>
    /\ files = NoFiles
    /\ instances = << >>
    /\ reports = << >>

Init == InitWith(StructBundles, StructDataSets)
InitFormat == InitWith(FormatBundles, FormatDataSets)

Passes(a, f, e, c) ==
    IF e.exc # ""
    THEN /\ pc' = "raised"
         /\ exc' = e.exc
         /\ passes' = <<"attribute", "format">>
         /\ rslt' = [NewErr EXCEPT !.attr_err = a, !.format_err = f]
    ELSE IF c.exc # ""
    THEN /\ pc' = "raised"
         /\ exc' = c.exc
         /\ passes' = <<"attribute", "format", "entry_code">>
         /\ rslt' = [NewErr EXCEPT !.attr_err = a, !.format_err = f, !.ecode_err = e.val]
    ELSE /\ pc' = "returned"
         /\ exc' = ""
         /\ passes' = <<"attribute", "format", "entry_code", "encoding">>
         /\ rslt' = [attr_err |-> a, format_err |-> f,
                     ecode_err |-> e.val, char_encode_err |-> c.val]

Validate ==
    /\ pc = "ready"
    /\ Passes(validate_attribute(bundle, data), validate_format(bundle, data),
              validate_entry_code(bundle, data), validate_encoding(bundle, data))
    /\ views' = NewViews
    /\ out' = NoOut
    /\ last' = "validate"
    /\ UNCHANGED <<bundle, data, recomputed, changes, probe, calls,
                   files, instances, reports>>

Next == Validate

Spec == Init /\ [][Next]_vars
SpecFormat == InitFormat /\ [][Next]_vars

\* ------------------------------------------------------------------------
\* A report in the hands of a caller: a new OCADataSetErr (lines 102-112),
\* changed through its public collections with the statements the passes
\* use, and queried.
ErrNames == {"a", "b"}
ErrRowIds == 0..(MaxRows - 1)
RowMaps == {"format_err", "ecode_err", "char_encode_err"}
RowMsg(m) ==
    IF m = "format_err" THEN MISSING_MSG
    ELSE IF m = "ecode_err" THEN EC_ERR_MSG
    ELSE CHE_ERR_MSG

InitErr ==
    /\ bundle = [attributes |-> << >>, format |-> Absent, conformance |-> Absent,
                 entry_code |-> Absent, character_encoding |-> Absent]
    /\ data = [cols |-> << >>, rows |-> 0, cell |-> << >>]
    /\ pc = "report"
    /\ passes = << >>
    /\ exc = ""
    /\ rslt = NewErr
    /\ views = NewViews
    /\ out = NoOut
    /\ last = "init"
    /\ recomputed = 0
    /\ changes = 0
    /\ probe = NoProbe
    /\ calls = << >>
    /\ files = NoFiles
    /\ instances = << >>
    /\ reports = << >>

Put(f, k, v) == [x \in DOMAIN f \cup {k} |-> IF x = k THEN v ELSE f[x]]

Changed ==
    /\ changes < MaxChanges
    /\ changes' = changes + 1
    /\ recomputed' = 0
    /\ last' = "change"
    /\ UNCHANGED <<bundle, data, pc, passes, exc, views, out, probe, calls,
                   files, instances, reports>>

\* rslt.errs[attr] = {}  (lines 328, 384, 398)
NewRowMap(m, attr) ==
    /\ pc = "report"
    /\ rslt' = [rslt EXCEPT ![m] = Put(rslt[m], attr, << >>)]
    /\ Changed

\* rslt.errs[attr][i] = message  (lines 341, 353, 389, 402)
RecordRow(m, attr, i) ==
    /\ pc = "report"
    /\ attr \in DOMAIN rslt[m]
    /\ rslt' = [rslt EXCEPT ![m] = Put(rslt[m], attr, Put(rslt[m][attr], i, RowMsg(m)))]
    /\ Changed

\* rslt.errs += [(name, message)]  (lines 311-320)
RecordAttr(name, msg) ==
    /\ pc = "report"
    /\ rslt' = [rslt EXCEPT !.attr_err = Append(rslt.attr_err, <<name, msg>>)]
    /\ Changed

\* rslt.attr_err = AttributeErr()  (lines 310, 446)
NewAttrErr ==
    /\ pc = "report"
    /\ rslt' = [rslt EXCEPT !.attr_err = << >>]
    /\ Changed

Recomputed_drops_empty_maps ==
    /\ recomputed' = IF recomputed < 2 THEN recomputed + 1 ELSE 2
    /\ rslt' = [rslt EXCEPT
                  !.format_err = [i \in ErrCols(rslt.format_err) |-> rslt.format_err[i]],
                  !.ecode_err = [i \in ErrCols(rslt.ecode_err) |-> rslt.ecode_err[i]],
                  !.char_encode_err = [i \in ErrCols(rslt.char_encode_err) |->
                                          rslt.char_encode_err[i]]]
    /\ UNCHANGED <<bundle, data, pc, passes, exc, changes, probe, calls,
                   files, instances, reports>>

\* the calls that read the report assign to the four derived sets only
\* (lines 159-176) and print: the raw collections are read
Recomputed ==
    /\ recomputed' = IF recomputed < 2 THEN recomputed + 1 ELSE 2
    /\ UNCHANGED <<bundle, data, pc, passes, exc, rslt, changes, probe, calls,
                   files, instances, reports>>

UpdateErr ==
    /\ pc = "report"
    /\ views' = update_err(rslt, views)
    /\ last' = "update_err"
    /\ out' = out
    /\ Recomputed

Overview ==
    /\ pc = "report"
    /\ views' = update_err(rslt, views)
    /\ out' = overview(rslt, views')
    /\ last' = "overview"
    /\ Recomputed

\* first_err_col calls update_err (line 146) and, when err_cols is not
\* empty, get_err_col, which calls it once more (line 196)
FirstErrCol ==
    /\ pc = "report"
    /\ LET v == update_err(rslt, views)
       IN /\ views' = IF v.err_cols = {} THEN v ELSE update_err(rslt, v)
          /\ recomputed' = IF v.err_cols = {} /\ recomputed < 1 THEN 1 ELSE 2
    /\ out' = first_err_col(rslt, views')
    /\ last' = "first_err_col"
    /\ UNCHANGED <<bundle, data, pc, passes, exc, rslt, changes, probe, calls,
                   files, instances, reports>>

GetErrCol(attr_name) ==
    /\ pc = "report"
    /\ views' = update_err(rslt, views)
    /\ out' = get_err_col(rslt, views', attr_name)
    /\ last' = "get_err_col"
    /\ Recomputed

NextErr ==
    \/ \E m \in RowMaps, attr \in ErrNames : NewRowMap(m, attr)
    \/ \E m \in RowMaps, attr \in ErrNames, i \in ErrRowIds : RecordRow(m, attr, i)
    \/ \E name \in ErrNames, msg \in {ATTR_MISSING_MSG, ATTR_UNMATCH_MSG} :
            RecordAttr(name, msg)
    \/ NewAttrErr
    \/ UpdateErr
    \/ Overview
    \/ FirstErrCol
    \/ \E attr_name \in ErrNames : GetErrCol(attr_name)

SpecErr == InitErr /\ [][NextErr]_vars

\* ------------------------------------------------------------------------
\* The matchers called on their own: a call is drawn, then applied.
EncodingNames == {"utf-8", "utf-16le", "iso-8859-1", "ascii", "UTF-8", "", None}
ProbeCells == {NaN, StrCell(""), StrCell("A"), StrCell("abc"), StrCell("nan"),
               StrCell("2023-05-17"), StrCell("[\"AB\"]"), IntCell(0), IntCell(7),
               IntCell(-12), BoolCell(TRUE), BoolCell(FALSE)}
Call(fn, args) == [fn |-> fn, args |-> args, done |-> FALSE, res |-> Ret(FALSE)]

EncodingCalls ==
    {Call("match_character_encoding", <<x, enc>>) : x \in ProbeCells, enc \in EncodingNames}

\* match_format(attr_type, pattern, data_str): tags with one, several or
\* none of the substrings the dispatch looks for
FormatTags == {"DateTime", "Numeric", "Text", "Boolean", "Binary", "Array[Boolean]",
               "BooleanText", "TextDateTime", "BooleanDateTime", "NumericBoolean"}
MatchPatterns == {None, "", "^[A-Z]+$", "[0-9]", "YYYY-MM-DD", "YYYY/MM/DD", "PnD"}
MatchValues == {"", "AB", "ab", "7", "true", "TRUE", "yes", "T", "1.0",
                "2023-05-17", "2023/05/17", "P3D"}
FormatCalls ==
    {Call("match_format", <<t, p, v>>) :
        t \in FormatTags, p \in MatchPatterns, v \in MatchValues}

\* match_datetime(pattern, data_str): patterns and values with no, one or
\* two "/", with a time zone, with white space, with a day of the year and
\* with a week and a day of the week
DatetimePatterns == {None, "", "YYYY", "YYYY-MM-DD", "YYYY/MM", "YYYY/MM/DD",
                     "YYYY-MM-DD/YYYY-MM-DD", "YYYY/PnD", "PnD", "Rn/YYYY/MM", "/", "YYYY/",
                     "hh:mmZ", "hh:mm+hh:mm", "YYYY-MM-DD hh:mm", "YYYY-DDD",
                     "YYYY-Www-D"}
DatetimeValues == {"", "2023", "05", "2023-05-17", "2023/05", "2023/05/17", "2023/05/xx",
                   "2023/05/", "2023-05-17/2023-05-18", "2023-05-17/2023-13-18",
                   "2023/P3D", "P3D", "R5/2023/05", "R5/2023/xx", "/", "2023/",
                   "10:20Z", "10:20z", "10:20+01:00", "10:20-0100", "10:20+2400",
                   "10:20+01:0030", "10:20+01:00:30.5", "2023-05- 7",
                   "2023-05-07  10:20", "2023-05-07\t10:20", "9999-366",
                   "9999-W53-6", "2023-W20-3"}
DatetimeCalls ==
    {Call("match_datetime", <<p, v>>) : p \in DatetimePatterns, v \in DatetimeValues}

\* match_boolean(data_str): the core words in every letter case, the single
\* letters, the numeric forms and other strings
RECURSIVE Casings(_)
Casings(w) ==
    IF w = "" THEN {""}
    ELSE {c \o rest : c \in {At(w, 1), Lower(At(w, 1))}, rest \in Casings(Drop(w, 1))}
BooleanValues ==
    Casings("TRUE") \cup Casings("FALSE")
        \cup {"T", "F", "t", "f", "1", "1.0", "0", "0.0", "1.00", "00", "01", "2", "-1",
              "yes", "no", "Y", "N", "on", "off", "", " true", "true ", "truee", "nan"}
BooleanCalls == {Call("match_boolean", <<v>>) : v \in BooleanValues}

\* iso2py(iso_str), lines 455-476: patterns made of up to MaxTokens tokens
\* of the table and separator characters, and whole date and time patterns
IsoItems == {ISO_CONV[k][1] : k \in 1..Len(ISO_CONV)} \cup {"-", ":", "T", "W", "."}
RECURSIVE IsoStrings(_)
IsoStrings(n) ==
    IF n = 0 THEN {""}
    ELSE {s \o t : s \in IsoStrings(n - 1), t \in IsoItems \cup {""}}
IsoExamples == {"YYYY-MM-DDThh:mm:ss", "YYYY-MM-DDThh:mm:ssZ", "YYYY-MM-DDThh:mm:ss+hh:mm",
                "YYYYMMDDThhmmss", "YYYY-DDD", "YYYY-Www-D", "hh:mm:ss.sss", "YYYYMMmm",
                "YYYY-Dww"}
IsoPatterns == IsoStrings(MaxTokens) \cup IsoExamples
IsoCalls == {[fn |-> "iso2py", args |-> <<p>>, done |-> FALSE, res |-> Ret("")] :
                p \in IsoPatterns}

InitMatch ==
    /\ bundle = [attributes |-> << >>, format |-> Absent, conformance |-> Absent,
                 entry_code |-> Absent, character_encoding |-> Absent]
    /\ data = [cols |-> << >>, rows |-> 0, cell |-> << >>]
    /\ pc = "probe"
    /\ passes = << >>
    /\ exc = ""
    /\ rslt = NewErr
    /\ views = NewViews
    /\ out = NoOut
    /\ last = "init"
    /\ recomputed = 0
    /\ changes = 0
    /\ \/ probe \in EncodingCalls
       \/ probe \in FormatCalls
       \/ probe \in DatetimeCalls
       \/ probe \in BooleanCalls
       \/ probe \in IsoCalls
    /\ calls = << >>
    /\ files = NoFiles
    /\ instances = << >>
    /\ reports = << >>

MatchCharacterEncoding ==
    /\ pc = "probe"
    /\ probe.fn = "match_character_encoding"
    /\ ~probe.done
    /\ probe' = [probe EXCEPT !.done = TRUE,
                              !.res = match_character_encoding(probe.args[1], probe.args[2])]
    /\ UNCHANGED <<bundle, data, pc, passes, exc, rslt, views, out, last,
                   recomputed, changes, calls,
                   files, instances, reports>>

MatchFormat ==
    /\ pc = "probe"
    /\ probe.fn = "match_format"
    /\ ~probe.done
    /\ probe' = [probe EXCEPT !.done = TRUE,
                              !.res = Ret(match_format(probe.args[1], probe.args[2],
                                                       probe.args[3]))]
    /\ UNCHANGED <<bundle, data, pc, passes, exc, rslt, views, out, last,
                   recomputed, changes, calls,
                   files, instances, reports>>

MatchDatetime ==
    /\ pc = "probe"
    /\ probe.fn = "match_datetime"
    /\ ~probe.done
    /\ probe' = [probe EXCEPT !.done = TRUE,
                              !.res = Ret(match_datetime(probe.args[1], probe.args[2]))]
    /\ UNCHANGED <<bundle, data, pc, passes, exc, rslt, views, out, last,
                   recomputed, changes, calls,
                   files, instances, reports>>

MatchBoolean ==
    /\ pc = "probe"
    /\ probe.fn = "match_boolean"
    /\ ~probe.done
    /\ probe' = [probe EXCEPT !.done = TRUE, !.res = Ret(match_boolean(probe.args[1]))]
    /\ UNCHANGED <<bundle, data, pc, passes, exc, rslt, views, out, last,
                   recomputed, changes, calls,
                   files, instances, reports>>

Iso2py ==
    /\ pc = "probe"
    /\ probe.fn = "iso2py"
    /\ ~probe.done
    /\ probe' = [probe EXCEPT !.done = TRUE, !.res = Ret(iso2py(probe.args[1]))]
    /\ UNCHANGED <<bundle, data, pc, passes, exc, rslt, views, out, last,
                   recomputed, changes, calls,
                   files, instances, reports>>

NextMatch ==
    MatchCharacterEncoding \/ MatchFormat \/ MatchDatetime \/ MatchBoolean \/ Iso2py

SpecMatch == InitMatch /\ [][NextMatch]_vars

\* ------------------------------------------------------------------------
\* validate called several times on one bundle, with its options, lines
\* 406-450.  In this part a bundle also carries the flagged attributes of
\* its capture base and the "type" of every entry of overlays_dict, in the
\* order of the dict (None: no "type" key).

\* get_overlay_version, lines 250-255
get_overlay_version(type) ==
    IF type = None THEN None ELSE Split(type, "/")[Len(Split(type, "/"))]

\* flagged_alarm, lines 406-411: the lines it prints
flagged_alarm(b) ==
    IF b.flagged # << >>
    THEN <<"Contains flagged data. Please check the following attribute(s):">>
            \o b.flagged \o <<"">>
    ELSE << >>

\* version_alarm, lines 414-426: the lines it prints
VersionWarnings(warned) ==
    [k \in DOMAIN warned |->
        "Warning: overlay " \o warned[k][1] \o " has a different OCA specification version."]
        \o (IF warned # << >> THEN <<"">> ELSE << >>)

version_alarm(b) ==
    LET Differs(o) ==
            /\ get_overlay_version(o[2]) \notin {None, ""}
            /\ get_overlay_version(o[2]) # OCA_VERSION
    IN VersionWarnings(SelectSeq(b.types, Differs))

\* validate, lines 429-450: what it prints and how it ends
Notices(b, show_data_preview, enable_flagged_alarm, enable_version_alarm) ==
    (IF show_data_preview THEN <<"<data_set.data>", "">> ELSE << >>)
        \o (IF enable_flagged_alarm THEN flagged_alarm(b) ELSE << >>)
        \o (IF enable_version_alarm THEN version_alarm(b) ELSE << >>)

Outcome(a, f, e, c) ==
    IF e.exc # ""
    THEN [pc |-> "raised", exc |-> e.exc, passes |-> <<"attribute", "format">>,
          rslt |-> [NewErr EXCEPT !.attr_err = a, !.format_err = f]]
    ELSE IF c.exc # ""
    THEN [pc |-> "raised", exc |-> c.exc,
          passes |-> <<"attribute", "format", "entry_code">>,
          rslt |-> [NewErr EXCEPT !.attr_err = a, !.format_err = f, !.ecode_err = e.val]]
    ELSE [pc |-> "returned", exc |-> "",
          passes |-> <<"attribute", "format", "entry_code", "encoding">>,
          rslt |-> [attr_err |-> a, format_err |-> f,
                    ecode_err |-> e.val, char_encode_err |-> c.val]]

validate(b, ds, show_data_preview, enable_flagged_alarm, enable_version_alarm) ==
    [printed |-> Notices(b, show_data_preview, enable_flagged_alarm, enable_version_alarm),
     end |-> Outcome(validate_attribute(b, ds), validate_format(b, ds),
                     validate_entry_code(b, ds), validate_encoding(b, ds))]

\* The bundles and data sets of the calls
CallTypes(cb_type, e) ==
    <<<<"capture_base", cb_type>>, <<"format", None>>,
      <<"conformance", "spec/overlays/conformance/1.0">>>>
        \o (IF e.present THEN <<<<"entry_code", "spec/overlays/entry_code/1.1">>>> ELSE << >>)
        \o <<<<"character_encoding", "spec/overlays/character_encoding/1.0">>>>

CallBundles ==
    {[attributes |-> <<Attr("a", "Text"), Attr("b", "Boolean")>>,
      format |-> Overlay(Map1("a", "^[A-Z]+$")),
      conformance |-> Overlay(Map2("a", "M", "b", "O")),
      entry_code |-> e,
      character_encoding |-> Overlay(<< >>),
      flagged |-> n.flagged,
      types |-> CallTypes(n.type, e)] :
        e \in {Absent, Overlay(Map1("a", <<"B", "nan">>))},
        n \in {[flagged |-> << >>, type |-> "spec/capture_base/1.0"],
               [flagged |-> <<"a">>, type |-> "spec/capture_base/1.1"]}}

CallDataSets ==
    {[cols |-> <<"a", "b">>, rows |-> 1,
      cell |-> [c \in {"a", "b"} |->
                    [i \in {0} |-> IF c = "a" THEN StrCell("ab") ELSE StrCell("yes")]]],
     [cols |-> <<"x", "b", "a">>, rows |-> 1,
      cell |-> [c \in {"x", "b", "a"} |->
                    [i \in {0} |-> IF c = "a" THEN NaN
                                   ELSE IF c = "b" THEN BoolCell(TRUE) ELSE StrCell("A")]]]}

InitCalls ==
    /\ bundle \in CallBundles
    /\ data = [cols |-> << >>, rows |-> 0, cell |-> << >>]
    /\ pc = "calls"
    /\ passes = << >>
    /\ exc = ""
    /\ rslt = NewErr
    /\ views = NewViews
    /\ out = NoOut
    /\ last = "init"
    /\ recomputed = 0
    /\ changes = 0
    /\ probe = NoProbe
    /\ calls = << >>
    /\ files = NoFiles
    /\ instances = << >>
    /\ reports = << >>

StoreReport_shared_errs(heap, built) == [k \in 1..(Len(heap) + 1) |-> [built EXCEPT !.attr_err = (IF heap = << >> THEN << >> ELSE heap[Len(heap)].attr_err) \o built.attr_err]]

\* rslt = OCADataSetErr() of line 445 with the four assignments of lines
\* 446-449: one more object, built, next to the objects built before; the
\* classes of lines 81-112 make their collections in __init__, so that
\* no object shares one with another
StoreReport(heap, built) == Append(heap, built)

\* One more call of validate on the bundle: it builds its report, and the
\* caller gets the object (ref) with the content it has at the return
RecordCall(ds, show_data_preview, enable_flagged_alarm, enable_version_alarm, v) ==
    /\ reports' = StoreReport(reports, v.end.rslt)
    /\ calls' = Append(calls, [ds |-> ds, show_data_preview |-> show_data_preview,
                               enable_flagged_alarm |-> enable_flagged_alarm,
                               enable_version_alarm |-> enable_version_alarm,
                               printed |-> v.printed,
                               end |-> [v.end EXCEPT !.rslt = reports'[Len(reports')]],
                               ref |-> Len(reports')])

ValidateCall(ds, show_data_preview, enable_flagged_alarm, enable_version_alarm) ==
    /\ pc = "calls"
    /\ Len(calls) < MaxCalls
    /\ RecordCall(ds, show_data_preview, enable_flagged_alarm, enable_version_alarm,
                  validate(bundle, ds, show_data_preview, enable_flagged_alarm,
                           enable_version_alarm))
    /\ UNCHANGED <<bundle, data, pc, passes, exc, rslt, views, out, last,
                   recomputed, changes, probe, files, instances>>

NextCalls ==
    \E ds \in CallDataSets, show_data_preview \in BOOLEAN,
       enable_flagged_alarm \in BOOLEAN, enable_version_alarm \in BOOLEAN :
        ValidateCall(ds, show_data_preview, enable_flagged_alarm, enable_version_alarm)

SpecCalls == InitCalls /\ [][NextCalls]_vars

\* ------------------------------------------------------------------------
\* The zip-based loaders: class OCABundle of oca_bundle.py (lines 15-63) and
\* class OCABundle of oca2py.py (lines 9-59).  An archive is what the loader
\* reads from the zip file: the document of meta.json, with the file name of
\* the capture base under "root" and, under "files", for that file name the
\* dict from overlay name to file name; and the JSON document stored under
\* every file name.  The archives of the model hold every file they name.
CB_NAME == "capture_base"
Loaders == {"oca_bundle", "oca2py"}

\* files_dict after oca_bundle.py lines 51-52, oca2py.py line 47
LoadedDict(loader, archive) ==
    IF loader = "oca_bundle"
    THEN Put(archive.meta.files[archive.meta.root], CB_NAME, archive.meta.root)
    ELSE archive.meta.files[archive.meta.root]

\* self.meta once __init__ has returned: files_dict is the dict held by meta
\* under "files", so the key line 52 of oca_bundle.py adds is in meta as well
LoadedMeta(archive, files_dict) ==
    [archive.meta EXCEPT !.files = Put(archive.meta.files, archive.meta.root, files_dict)]

\* the loop of oca_bundle.py lines 53-55, oca2py.py lines 48-50: self.files
\* is never assigned to, so self.files[file_name] = ... stores into the dict
\* of the class
LoadFiles(fs, archive, files_dict) ==
    [file_name \in DOMAIN fs \cup Range(files_dict) |->
        IF file_name \in Range(files_dict) THEN archive.docs[file_name] ELSE fs[file_name]]

\* get_file, oca_bundle.py lines 57-63 and oca2py.py lines 52-59, on an
\* instance whose self.files is the dict fs
get_file(inst, fs, file_name) ==
    IF file_name = "meta" THEN Ret(inst.meta)
    ELSE IF file_name \in DOMAIN inst.files_dict
    THEN IF inst.files_dict[file_name] \in DOMAIN fs
         THEN Ret(fs[inst.files_dict[file_name]])
         ELSE Exc("KeyError")
    ELSE IF inst.loader = "oca_bundle" THEN Exc("Exception")
    ELSE Ret(None)

\* the names get_file is asked for
AskedNames == {"meta", CB_NAME, "format", "entry"}

\* the object __init__ leaves, with what get_file returns on it right after
Built(inst, fs) ==
    [loader |-> inst.loader, meta |-> inst.meta, files_dict |-> inst.files_dict,
     first |-> [file_name \in AskedNames |-> get_file(inst, fs, file_name)]]

NewBundle(loader, archive, files_dict, fs) ==
    /\ files' = [files EXCEPT ![loader] = fs]
    /\ instances' = Append(instances,
            Built([loader |-> loader, meta |-> LoadedMeta(archive, files_dict),
                   files_dict |-> files_dict], fs))

\* archives: a capture base and a format overlay, under file names that
\* two archives may share, with documents that may differ
Archives ==
    {[meta |-> [root |-> r, files |-> Map1(r, Map1("format", o))],
      docs |-> Map2(r, cb, o, ov)] :
        r \in {"E1", "E2"}, o \in {"E3", "E4"}, cb \in {"X", "Y"}, ov \in {"X", "Y"}}

InitLoad ==
    /\ bundle = [attributes |-> << >>, format |-> Absent, conformance |-> Absent,
                 entry_code |-> Absent, character_encoding |-> Absent]
    /\ data = [cols |-> << >>, rows |-> 0, cell |-> << >>]
    /\ pc = "load"
    /\ passes = << >>
    /\ exc = ""
    /\ rslt = NewErr
    /\ views = NewViews
    /\ out = NoOut
    /\ last = "init"
    /\ recomputed = 0
    /\ changes = 0
    /\ probe = NoProbe
    /\ calls = << >>
    /\ files = NoFiles
    /\ instances = << >>
    /\ reports = << >>

\* OCABundle(path_str) of one of the two loaders on the zip file archive
Construct(loader, archive) ==
    /\ pc = "load"
    /\ Len(instances) < MaxBundles
    /\ NewBundle(loader, archive, LoadedDict(loader, archive),
                 LoadFiles(files[loader], archive, LoadedDict(loader, archive)))
    /\ UNCHANGED <<bundle, data, pc, passes, exc, rslt, views, out, last,
                   recomputed, changes, probe, calls, reports>>

NextLoad == \E loader \in Loaders, archive \in Archives : Construct(loader, archive)

SpecLoad == InitLoad /\ [][NextLoad]_vars

\* ========================================================================
\* Properties.
ALL_PASSES == <<"attribute", "format", "entry_code", "encoding">>
Called == pc \in {"returned", "raised"}
Cell(attr, i) == data.cell[attr][i]
Mandatory(attr) ==
    /\ bundle.conformance.present
    /\ attr \in DOMAIN bundle.conformance.map
    /\ bundle.conformance.map[attr] = "M"
HasFormat(attr) == bundle.format.present /\ attr \in DOMAIN bundle.format.map
DeclaresEncoding(attr) ==
    /\ bundle.character_encoding.present
    /\ attr \in DOMAIN bundle.character_encoding.map
    /\ bundle.character_encoding.map[attr] \notin {"", None}
Position(q, x) == CHOOSE k \in DOMAIN q : q[k] = x

\* C1: for every bundle and data set, validate runs the attribute, format,
\* entry-code and encoding passes in that order and returns the report; no
\* data-level condition makes it stop earlier or raise.
C1_AllPassesRun == Called => (pc = "returned" /\ passes = ALL_PASSES /\ exc = "")

\* C2: validate_attribute returns one UNMATCHED entry per data column that
\* is not a schema attribute, in column order, followed by one MISSING entry
\* per schema attribute that is not a column, in schema order; a name on
\* both sides is in neither group and no name is in both.
C2_AttributeOrder ==
    Called =>
        LET e == rslt.attr_err
            Unm == {k \in DOMAIN e : e[k][2] = ATTR_UNMATCH_MSG}
            Mis == {k \in DOMAIN e : e[k][2] = ATTR_MISSING_MSG}
        IN /\ Unm \cup Mis = DOMAIN e
           /\ \A j \in Unm, k \in Mis : j < k
           /\ {e[k][1] : k \in Unm} = ColSet(data) \ AttrSet(bundle)
           /\ {e[k][1] : k \in Mis} = AttrSet(bundle) \ ColSet(data)
           /\ \A j, k \in DOMAIN e : j # k => e[j][1] # e[k][1]
           /\ \A j, k \in Unm :
                j < k => Position(data.cols, e[j][1]) < Position(data.cols, e[k][1])
           /\ \A j, k \in Mis :
                j < k => Position(get_attributes(bundle), e[j][1])
                            < Position(get_attributes(bundle), e[k][1])

C2_Witness ==
    /\ Called
    /\ Len(rslt.attr_err) = 3
    /\ rslt.attr_err[2][2] = ATTR_UNMATCH_MSG
    /\ rslt.attr_err[3][2] = ATTR_MISSING_MSG

\* C3: in validate_format a missing cell of a mandatory attribute gets
\* exactly the missing-mandatory message, whatever the type tag, pattern or
\* entry codes of the attribute, and neither the array parse nor a format
\* match is applied to that cell.
C3_MissingMandatory ==
    Called =>
        \A attr \in AttrSet(bundle) \cap ColSet(data) : \A i \in Rows(data) :
            (Mandatory(attr) /\ isna(Cell(attr, i))) =>
                /\ i \in DOMAIN rslt.format_err[attr]
                /\ rslt.format_err[attr][i] = MISSING_MSG
                /\ ~FormatCell(bundle, attr, Cell(attr, i)).parsed
                /\ FormatCell(bundle, attr, Cell(attr, i)).checks = 0

C3_Witness ==
    /\ Called
    /\ \E attr \in AttrSet(bundle) \cap ColSet(data) : \E i \in Rows(data) :
        /\ Mandatory(attr) /\ isna(Cell(attr, i))
        /\ Contains("Array", get_attribute_type(bundle, attr))
        /\ HasFormat(attr)
        /\ attr \in DOMAIN get_entry_codes(bundle)
        /\ rslt.format_err[attr][i] = MISSING_MSG

\* C4: when validate_entry_code returns, its result has an entry exactly for
\* the attributes with a declared entry-code set, and for each of them a row
\* has an error if and only if the stringified cell, a missing value
\* included, is not one of the attribute's codes.
EntryCodePassReturned == Called /\ Len(passes) >= 3
C4_EntryCodes ==
    EntryCodePassReturned =>
        /\ DOMAIN rslt.ecode_err = DOMAIN get_entry_codes(bundle)
        /\ \A attr \in DOMAIN rslt.ecode_err : \A i \in Rows(data) :
            (i \in DOMAIN rslt.ecode_err[attr])
                <=> (PyStr(Cell(attr, i)) \notin Range(bundle.entry_code.map[attr]))

C4_Witness ==
    /\ EntryCodePassReturned
    /\ \E attr \in DOMAIN rslt.ecode_err : \E i, j \in Rows(data) :
        /\ isna(Cell(attr, i)) /\ i \notin DOMAIN rslt.ecode_err[attr]
        /\ j \in DOMAIN rslt.ecode_err[attr]
    /\ AttrSet(bundle) \ DOMAIN rslt.ecode_err # {}

\* C5: an attribute without a declared character encoding (no overlay, or no
\* entry for it) is checked against the default utf-8, so the encoding pass
\* records no mismatch for its cells.
C5_DefaultEncoding ==
    pc = "returned" =>
        \A attr \in AttrSet(bundle) :
            ~DeclaresEncoding(attr) =>
                /\ get_character_encoding(bundle, attr) = DEFAULT_ENCODING
                /\ DOMAIN rslt.char_encode_err[attr] = {}

\* C6: an attribute without a format pattern gets no error from
\* validate_format in any row, whatever its type tag and its cells.
C6_NoPatternNoError ==
    Called =>
        \A attr \in AttrSet(bundle) :
            ~HasFormat(attr) => DOMAIN rslt.format_err[attr] = {}

\* C6, amended: an attribute without a format pattern whose type tag has no
\* "Array" and has "DateTime", "Numeric" or "Text" or has no "Boolean" gets
\* an error from validate_format exactly in the rows where the attribute is
\* mandatory and the cell is missing.
PatternOnlyType(t) ==
    /\ ~Contains("Array", t)
    /\ \/ Contains("DateTime", t) \/ Contains("Numeric", t) \/ Contains("Text", t)
       \/ ~Contains("Boolean", t)

C6_NoPatternAmended ==
    Called =>
        \A attr \in AttrSet(bundle) \cap ColSet(data) :
            (~HasFormat(attr) /\ PatternOnlyType(get_attribute_type(bundle, attr))) =>
                \A i \in Rows(data) :
                    (i \in DOMAIN rslt.format_err[attr])
                        <=> (Mandatory(attr) /\ isna(Cell(attr, i)))

C6_Witness ==
    /\ Called
    /\ \E attr \in AttrSet(bundle) \cap ColSet(data) : \E i \in Rows(data) :
        /\ bundle.format.present /\ ~HasFormat(attr)
        /\ get_attribute_type(bundle, attr) = "Text"
        /\ Cell(attr, i) = StrCell("ab")
        /\ i \notin DOMAIN rslt.format_err[attr]

\* C7: right after a recomputation the derived views are a function of the
\* current raw collections only: err_cols is the set of attributes with a
\* recorded row in one of the three row maps, err_rows the union of the
\* recorded rows, missing_attr and unmatched_attr the names of the MISSING
\* and UNMATCHED entries of the attribute error list.
RowErrCols(r) ==
    {a \in DOMAIN r.format_err : DOMAIN r.format_err[a] # {}}
        \cup {a \in DOMAIN r.ecode_err : DOMAIN r.ecode_err[a] # {}}
        \cup {a \in DOMAIN r.char_encode_err : DOMAIN r.char_encode_err[a] # {}}
RowErrRows(r) ==
    UNION ({DOMAIN r.format_err[a] : a \in DOMAIN r.format_err}
            \cup {DOMAIN r.ecode_err[a] : a \in DOMAIN r.ecode_err}
            \cup {DOMAIN r.char_encode_err[a] : a \in DOMAIN r.char_encode_err})
NamesWith(r, msg) == {x[1] : x \in {y \in Range(r.attr_err) : y[2] = msg}}

C7_ViewsOfRaw ==
    recomputed >= 1 =>
        /\ views.err_cols = RowErrCols(rslt)
        /\ views.err_rows = RowErrRows(rslt)
        /\ views.missing_attr = NamesWith(rslt, ATTR_MISSING_MSG)
        /\ views.unmatched_attr = NamesWith(rslt, ATTR_UNMATCH_MSG)

\* C8: update_err called again with no change to the raw collections since
\* the last recomputation leaves the four derived views as they were.
C8_UpdateIdempotent ==
    [][(UpdateErr /\ recomputed >= 1) => views' = views]_vars

C8_Witness ==
    /\ last = "update_err"
    /\ recomputed = 2
    /\ views.err_cols # {}
    /\ views.err_rows # {}
    /\ views.missing_attr # {}

\* C9: overview reports "no error" if and only if the attribute error list
\* is empty and no row error is recorded; it prints the attribute line when
\* the list is not empty and the row line, with the count of the affected
\* rows and the affected columns, when a row error is recorded, each set as
\* names up to ERR_THRESHOLD and as a count above.
C9_Overview ==
    last = "overview" =>
        /\ out.no_error <=> (rslt.attr_err = << >> /\ RowErrRows(rslt) = {})
        /\ out.attr_line <=> rslt.attr_err # << >>
        /\ out.attr_line =>
            /\ out.missing = Shown(NamesWith(rslt, ATTR_MISSING_MSG))
            /\ out.unmatched = Shown(NamesWith(rslt, ATTR_UNMATCH_MSG))
        /\ out.rows_line <=> RowErrRows(rslt) # {}
        /\ out.rows_line =>
            /\ out.nrows = Cardinality(RowErrRows(rslt))
            /\ out.cols = Shown(RowErrCols(rslt))

\* C10: for utf-8, utf-16le and iso-8859-1 and every value,
\* match_character_encoding returns a boolean and never ends in an
\* exception.
SUPPORTED_ENCODINGS == {"utf-8", "utf-16le", "iso-8859-1"}
C10_EncodingReturns ==
    (probe.fn = "match_character_encoding" /\ probe.done
        /\ probe.args[2] \in SUPPORTED_ENCODINGS)
    => (probe.res.exc = "" /\ probe.res.val \in BOOLEAN)

\* C11: for an encoding name other than utf-8, utf-16le and iso-8859-1,
\* match_character_encoding returns false for every value, and the encoding
\* pass, when it returns, has recorded the encoding mismatch message at every
\* row of every attribute whose resolved encoding name is such a name.
C11_UnknownEncoding ==
    pc = "returned" =>
        \A attr \in AttrSet(bundle) :
            get_character_encoding(bundle, attr) \notin SUPPORTED_ENCODINGS =>
                \A i \in Rows(data) :
                    /\ match_character_encoding(Cell(attr, i),
                            get_character_encoding(bundle, attr)) = Ret(FALSE)
                    /\ i \in DOMAIN rslt.char_encode_err[attr]
                    /\ rslt.char_encode_err[attr][i] =
                        CHE_ERR_MSG \o " Supported character encoding: "
                            \o FmtStr(get_character_encoding(bundle, attr)) \o "."

C11_Witness ==
    /\ pc = "returned"
    /\ data.rows >= 2
    /\ \E attr \in AttrSet(bundle) :
        /\ get_character_encoding(bundle, attr) = "ascii"
        /\ DOMAIN rslt.char_encode_err[attr] = Rows(data)

\* C12: match_format is match_datetime for a tag containing "DateTime",
\* else match_regex for a tag containing "Numeric" or "Text", else
\* match_boolean for a tag containing "Boolean", else true; a tag with
\* several of the substrings is decided by the first of them, and the
\* pattern plays no part for Boolean.
FormatProbeDone == pc = "probe" /\ probe.fn = "match_format" /\ probe.done
C12_FormatDispatch ==
    FormatProbeDone =>
        /\ probe.res.exc = ""
        /\ Contains("DateTime", probe.args[1])
            => probe.res.val = match_datetime(probe.args[2], probe.args[3])
        /\ (~Contains("DateTime", probe.args[1])
                /\ (Contains("Numeric", probe.args[1]) \/ Contains("Text", probe.args[1])))
            => probe.res.val = match_regex(probe.args[2], probe.args[3])
        /\ (~Contains("DateTime", probe.args[1]) /\ ~Contains("Numeric", probe.args[1])
                /\ ~Contains("Text", probe.args[1]) /\ Contains("Boolean", probe.args[1]))
            => probe.res.val = match_boolean(probe.args[3])
        /\ (~Contains("DateTime", probe.args[1]) /\ ~Contains("Numeric", probe.args[1])
                /\ ~Contains("Text", probe.args[1]) /\ ~Contains("Boolean", probe.args[1]))
            => probe.res.val = TRUE

C12_Witness ==
    /\ FormatProbeDone
    /\ probe.args = <<"BooleanText", "^[A-Z]+$", "AB">>
    /\ probe.res.val = TRUE
    /\ ~match_boolean("AB")

\* C13: for a non-empty pattern containing "/", match_datetime is false for
\* a value without "/", and otherwise true exactly when the pattern before
\* its first "/" matches the value before its first "/" and the whole rest
\* of the pattern after that "/" matches the whole rest of the value after
\* its first "/", both decided by match_datetime.
DatetimeProbeDone == pc = "probe" /\ probe.fn = "match_datetime" /\ probe.done
BeforeSlash(s) == Take(s, Find("/", s) - 1)
AfterSlash(s) == Drop(s, Find("/", s))
C13_IntervalHalves ==
    (DatetimeProbeDone /\ ~NoPattern(probe.args[1]) /\ Contains("/", probe.args[1])) =>
        /\ probe.res.exc = ""
        /\ ~Contains("/", probe.args[2]) => probe.res.val = FALSE
        /\ Contains("/", probe.args[2]) =>
            probe.res.val =
                (/\ match_datetime(BeforeSlash(probe.args[1]), BeforeSlash(probe.args[2]))
                 /\ match_datetime(AfterSlash(probe.args[1]), AfterSlash(probe.args[2])))

\* C14: match_boolean is true exactly for the words "true" and "false" in
\* any letter case, the single letters T and F, and the numeric forms 1,
\* 1.0, 0 and 0.0; every other string gives false.
BooleanProbeDone == pc = "probe" /\ probe.fn = "match_boolean" /\ probe.done
C14_BooleanAnyCase ==
    BooleanProbeDone =>
        /\ probe.res.exc = ""
        /\ probe.res.val =
            (\/ LowerStr(probe.args[1]) \in {"true", "false"}
             \/ probe.args[1] \in {"T", "F", "1", "1.0", "0", "0.0"})

\* C14, amended: match_boolean is true exactly for the twelve literals
\* True, true, TRUE, T, 1, 1.0, False, false, FALSE, F, 0 and 0.0; every
\* other string, another letter case of the words included, gives false.
C14_BooleanLiterals ==
    BooleanProbeDone =>
        /\ probe.res.exc = ""
        /\ probe.res.val =
            (probe.args[1] \in {"True", "true", "TRUE", "T", "1", "1.0",
                                "False", "false", "FALSE", "F", "0", "0.0"})

C14_Witness ==
    /\ BooleanProbeDone
    /\ probe.args[1] = "tRUE"
    /\ probe.res.val = FALSE

\* C15: a name that an overlay references and the capture base does not
\* declare carries no constraint: validate returns, and no format,
\* entry-code or encoding error is recorded under that name, with or
\* without a column of that name.  (Stated for the data sets in which every
\* declared attribute has a column and is checked with utf-8 or an unknown
\* encoding name, so that nothing else can end the call.)
OverlayNames ==
    UNION {DOMAIN bundle[o].map :
            o \in {"format", "conformance", "entry_code", "character_encoding"}}
UndeclaredNames == OverlayNames \ AttrSet(bundle)
NoErrorUnder(errs, n) == n \in DOMAIN errs => DOMAIN errs[n] = {}
DeclaredAttributesCheckable ==
    /\ AttrSet(bundle) \subseteq ColSet(data)
    /\ \A attr \in AttrSet(bundle) :
        get_character_encoding(bundle, attr) \notin {"utf-16le", "iso-8859-1"}
C15_UndeclaredTolerated ==
    (Called /\ DeclaredAttributesCheckable) =>
        \A n \in UndeclaredNames :
            /\ pc = "returned"
            /\ NoErrorUnder(rslt.format_err, n)
            /\ NoErrorUnder(rslt.ecode_err, n)
            /\ NoErrorUnder(rslt.char_encode_err, n)

\* C16: get_err_col reports "no error" if and only if the report holds no
\* error at all (no attribute error and no row error of the format,
\* entry-code and encoding passes); otherwise it lists the format messages
\* of the attribute by row, then its entry-code messages by row, and no
\* encoding message.  (Stated for the calls after which err_cols holds
\* exactly the columns that have a row error now.)
C16_GetErrCol ==
    [][\A attr_name \in ErrNames :
        (GetErrCol(attr_name) /\ views'.err_cols = RowErrCols(rslt)) =>
            /\ out'.no_error <=> (rslt.attr_err = << >> /\ RowErrRows(rslt) = {})
            /\ ~out'.no_error =>
                /\ out'.format_head <=> attr_name \in DOMAIN rslt.format_err
                /\ out'.format_head => out'.format_rows = rslt.format_err[attr_name]
                /\ out'.ecode_head <=> attr_name \in DOMAIN rslt.ecode_err
                /\ out'.ecode_head => out'.ecode_rows = rslt.ecode_err[attr_name]]_vars

\* C17: the outcome of a validate call depends only on the bundle and the
\* data set: two calls on the same data set end alike and return equal
\* attribute, format, entry-code and encoding collections, whatever the
\* options of each and whatever calls, on whatever data sets, were made
\* before and between them; every call returns an object of its own, a
\* report stays what it was when it was returned, and a call leaves the
\* bundle and every report built before as they were.
SameOutcome(c1, c2) ==
    /\ c1.end.pc = c2.end.pc
    /\ c1.end.exc = c2.end.exc
    /\ c1.end.pc = "returned" => c1.end.rslt = c2.end.rslt
FormatMsg(attr, i) ==
    IF i \in DOMAIN rslt.format_err[attr] THEN rslt.format_err[attr][i] ELSE ""
CellText(attr, i) == IF isna(Cell(attr, i)) THEN "" ELSE PyStr(Cell(attr, i))
GenericMismatch(attr) ==
    FORMAT_ERR_MSG \o " Supported format: "
        \o FmtStr(get_attribute_format(bundle, attr)) \o "."
ItemFails(attr, items, k) ==
    ~match_format(get_attribute_type(bundle, attr), get_attribute_format(bundle, attr),
                  items[k])
ArrayCellChecked(attr, i) ==
    /\ attr \in AttrSet(bundle) \cap ColSet(data)
    /\ i \in Rows(data)
    /\ Contains("Array", get_attribute_type(bundle, attr))
    /\ ~(Mandatory(attr) /\ isna(Cell(attr, i)))
C18_ArrayCells ==
    Called =>
        \A attr \in AttrSet(bundle), i \in Rows(data) :
            ArrayCellChecked(attr, i) =>
                /\ ~json_array(CellText(attr, i)).ok => FormatMsg(attr, i) = NOT_A_LIST_MSG
                /\ isna(Cell(attr, i)) => FormatMsg(attr, i) = NOT_A_LIST_MSG
                /\ json_array(CellText(attr, i)).ok =>
                    \A n \in 0..Len(json_array(CellText(attr, i)).items) :
                        (/\ \A k \in 1..n : ~ItemFails(attr, json_array(CellText(attr, i)).items, k)
                         /\ \/ n = Len(json_array(CellText(attr, i)).items)
                            \/ ItemFails(attr, json_array(CellText(attr, i)).items, n + 1))
                        => /\ FormatMsg(attr, i) =
                                (IF n = Len(json_array(CellText(attr, i)).items)
                                 THEN "" ELSE GenericMismatch(attr))
                           /\ FormatCell(bundle, attr, Cell(attr, i)).checks =
                                (IF n = Len(json_array(CellText(attr, i)).items)
                                 THEN n ELSE n + 1)

C18_Witness ==
    /\ Called
    /\ \E attr \in AttrSet(bundle), i, j \in Rows(data) :
        /\ ArrayCellChecked(attr, i) /\ ArrayCellChecked(attr, j)
        /\ get_attribute_type(bundle, attr) = "Array[Text]"
        /\ attr \in DOMAIN get_entry_codes(bundle)
        /\ Cell(attr, i) = StrCell("[true, \"yes\"]")
        /\ FormatMsg(attr, i) = FORMAT_ERR_MSG \o " Supported format: ^[A-Z]+$."
        /\ FormatCell(bundle, attr, Cell(attr, i)).checks = 1
        /\ isna(Cell(attr, j))
        /\ FormatMsg(attr, j) = NOT_A_LIST_MSG

\* C19: in validate_format, a cell of an attribute whose type tag has no
\* "Array" that fails match_format gets the entry-code variant of the
\* mismatch message, naming the pattern, exactly when the attribute has an
\* entry in the entry-code overlay, and the generic mismatch message naming
\* the pattern otherwise; a cell that passes gets no message.
PlainCellChecked(attr, i) ==
    /\ attr \in AttrSet(bundle) \cap ColSet(data)
    /\ i \in Rows(data)
    /\ ~Contains("Array", get_attribute_type(bundle, attr))
    /\ ~(Mandatory(attr) /\ isna(Cell(attr, i)))
CellFails(attr, i) ==
    ~match_format(get_attribute_type(bundle, attr), get_attribute_format(bundle, attr),
                  CellText(attr, i))
HasEntryCodes(attr) == bundle.entry_code.present /\ attr \in DOMAIN bundle.entry_code.map
EntryCodeMismatch(attr) ==
    EC_FORMAT_ERR_MSG \o " Supported format for entry code is: "
        \o FmtStr(get_attribute_format(bundle, attr)) \o "."
C19_MismatchVariant ==
    Called =>
        \A attr \in AttrSet(bundle), i \in Rows(data) :
            PlainCellChecked(attr, i) =>
                /\ (CellFails(attr, i) /\ HasEntryCodes(attr))
                    => FormatMsg(attr, i) = EntryCodeMismatch(attr)
                /\ (CellFails(attr, i) /\ ~HasEntryCodes(attr))
                    => FormatMsg(attr, i) = GenericMismatch(attr)
                /\ ~CellFails(attr, i) => i \notin DOMAIN rslt.format_err[attr]

C19_Witness ==
    /\ Called
    /\ \E attr \in AttrSet(bundle), i, j \in Rows(data) :
        /\ PlainCellChecked(attr, i) /\ PlainCellChecked(attr, j)
        /\ HasEntryCodes(attr)
        /\ HasFormat(attr)
        /\ CellFails(attr, i)
        /\ FormatMsg(attr, i) = EntryCodeMismatch(attr)
        /\ ~CellFails(attr, j)
        /\ j \notin DOMAIN rslt.format_err[attr]

\* C20: validate_format records no row error under a schema attribute that
\* has no column in the data set, mandatory or not, and still checks the
\* attributes that come after it; the absence is reported by the attribute
\* pass alone, as a missing attribute.
C20_AbsentColumnSkipped ==
    Called =>
        /\ DOMAIN rslt.format_err = AttrSet(bundle)
        /\ \A attr \in AttrSet(bundle) \ ColSet(data) :
            /\ DOMAIN rslt.format_err[attr] = {}
            /\ \E k \in DOMAIN rslt.attr_err : rslt.attr_err[k] = <<attr, ATTR_MISSING_MSG>>
        /\ \A attr \in AttrSet(bundle) \cap ColSet(data) : \A i \in Rows(data) :
            FormatMsg(attr, i) = FormatCell(bundle, attr, Cell(attr, i)).msg

C20_Witness ==
    /\ Called
    /\ data.rows = 2
    /\ get_attributes(bundle) = <<"a", "b">>
    /\ Mandatory("a")
    /\ "a" \notin ColSet(data)
    /\ "b" \in ColSet(data)
    /\ DOMAIN rslt.format_err["a"] = {}
    /\ DOMAIN rslt.format_err["b"] = {1}

\* C21: overview, first_err_col, get_err_col and update_err leave the four
\* raw error collections as they were: the attribute error list and the
\* three row maps keep their attribute keys, row keys and messages over
\* every such call, so the raw accessors return after any sequence of these
\* calls what the last recording left.
ReportCall == UpdateErr \/ Overview \/ FirstErrCol \/ \E attr_name \in ErrNames : GetErrCol(attr_name)

C21_RawUnchanged ==
    [][ReportCall =>
          /\ rslt'.attr_err = rslt.attr_err
          /\ rslt'.format_err = rslt.format_err
          /\ rslt'.ecode_err = rslt.ecode_err
          /\ rslt'.char_encode_err = rslt.char_encode_err]_vars

C21_Witness ==
    /\ pc = "report"
    /\ last \in {"overview", "first_err_col", "get_err_col"}
    /\ recomputed = 2
    /\ rslt.attr_err # << >>
    /\ \E a \in DOMAIN rslt.format_err : DOMAIN rslt.format_err[a] # {}
    /\ views.err_cols # {}

\* C22: iso2py applies the replacements of its table over the whole string
\* in the order of the table, and for every pattern made of tokens of the
\* table and separator characters its result is the token-by-token
\* translation of the pattern: read from the left, the longest token that
\* starts at a position becomes its directive and any other character is
\* kept, so that no later replacement alters a directive written by an
\* earlier one.
Iso2pyProbeDone == pc = "probe" /\ probe.fn = "iso2py" /\ probe.done

TokenAt(s) ==
    LET ks == {k \in 1..Len(ISO_CONV) : StartsWith(s, ISO_CONV[k][1])}
    IN IF ks = {} THEN 0
       ELSE CHOOSE k \in ks : \A j \in ks : Len(ISO_CONV[j][1]) <= Len(ISO_CONV[k][1])

RECURSIVE TokenWise(_), TokenWiseAt(_, _)
TokenWise(s) == IF s = "" THEN "" ELSE TokenWiseAt(s, TokenAt(s))
TokenWiseAt(s, k) ==
    IF k = 0 THEN At(s, 1) \o TokenWise(Drop(s, 1))
    ELSE ISO_CONV[k][2] \o TokenWise(Drop(s, Len(ISO_CONV[k][1])))

C22_TokenByToken ==
    Iso2pyProbeDone => probe.res = Ret(TokenWise(probe.args[1]))

\* C23: the bundle objects of the zip-based loaders share no loaded state:
\* after any sequence of constructions, get_file on an object built earlier
\* returns for every name what it returned right after that object was
\* built, and the files an object holds are files of its own archive only,
\* also when a later archive holds a file of the same name with another
\* document.
FilesOf(inst) == files[inst.loader]

C23_InstancesIndependent ==
    \A i \in DOMAIN instances :
        /\ \A file_name \in AskedNames :
                get_file(instances[i], FilesOf(instances[i]), file_name)
                    = instances[i].first[file_name]
        /\ DOMAIN FilesOf(instances[i]) \subseteq Range(instances[i].files_dict)
====
